---- MODULE Spec2Model ----
(***************************************************************************)
(* Verification model of estree-analyzer.                                  *)
(*                                                                         *)
(* Part 1: the type lattice of src/src/types.js (getKind, hasKind,         *)
(* isFalsy, isTruthy, isUnion, getUnionTypes, isAssignable, union,         *)
(* toCanonical, toShorthand and the transform helpers).                    *)
(*                                                                         *)
(* JavaScript values are modelled as records tagged by `form`:             *)
(*   undefined            [form |-> "undefined"]                           *)
(*   a string 'number'    [form |-> "string", kind |-> "number"]           *)
(*   an array [t1, t2]    [form |-> "list", items |-> <<t1, t2>>]          *)
(*   a type object        [form |-> "object", kind, elements, returns,     *)
(*                         params, anyOf, extra]                           *)
(*   a Parameter object   [form |-> "param", name, type]                   *)
(*   an iterator result   [form |-> "iterResult", value, done]             *)
(*   a thrown exception   [form |-> "throw", error]                        *)
(* A property that is absent on an object reads as undefined in            *)
(* JavaScript, so an absent property holds Undef.  `extra` stands for a    *)
(* caller-attached property other than kind/elements/returns/params/anyOf; *)
(* extra = 0 means that no such property is attached.                      *)
(***************************************************************************)
EXTENDS Integers, Sequences, FiniteSets, TLC

VARIABLES a, b, same, op, karg, ret, flag

typesVars == <<a, b, same, op, karg, ret, flag>>

\* formatType: the contextPrecedence argument and the string returned
VARIABLES ctx, text

formatVars == <<ctx, text>>

\* no formatType call is in progress
FormatIdle == ctx = 0 /\ text = ""

\* Scope: the scopes constructed so far (a scope is referred to by its
\* position), the last method call and what it returned or threw
VARIABLES scopes, scall, sret

scopeVars == <<scopes, scall, sret>>

\* no Scope has been constructed
ScopeIdle == scopes = <<>> /\ scall = [method |-> "none"] /\ sret = [form |-> "undefined"]

\* walk: the tree, the visitors and the state handed to walk, the hook
\* invocations made so far, the ancestors array, and how the call ended
VARIABLES wast, wvisitors, wstate, wtrace, wancestors, wend

walkVars == <<wast, wvisitors, wstate, wtrace, wancestors, wend>>

\* walk has not been called
WalkIdle ==
  /\ wast = [type |-> "<none>"] /\ wvisitors = {} /\ wstate = [form |-> "undefined"]
  /\ wtrace = <<>> /\ wancestors = [form |-> "undefined"] /\ wend = "none"

\* analyze: the tree, the scopes reachable from rootScope (the root scope at
\* position 1), the visits of identifiers and logical expressions made so
\* far, and what the call returned or threw
VARIABLES aast, ascopes, atrace, aret

analyzeVars == <<aast, ascopes, atrace, aret>>

\* analyze has not been called
AnalyzeIdle ==
  /\ aast = [type |-> "<none>"] /\ ascopes = <<>> /\ atrace = <<>>
  /\ aret = [form |-> "undefined"]

\* Formatter: the Formatter object with the lines it has written, the tokens
\* emitted so far with their kinds, and the last method called
VARIABLES formatter, femitted, fcall

formatterVars == <<formatter, femitted, fcall>>

\* no Formatter has been constructed
FormatterIdle ==
  formatter = [form |-> "undefined"] /\ femitted = <<>> /\ fcall = "none"

\* The round trip of the format test: the source text, the tree parsed last
\* (or the SyntaxError), the outputs of format so far, the guards emitted by
\* the last format call, and the step reached
VARIABLES rsrc, rast, rout, rguards, rstep

roundTripVars == <<rsrc, rast, rout, rguards, rstep>>

\* no text has been handed to the parser
RoundTripIdle ==
  /\ rsrc = "" /\ rast = [type |-> "<none>"] /\ rout = <<>> /\ rguards = <<>>
  /\ rstep = "none"

\* the variables outside the type lattice, outside Scope, outside walk,
\* outside analyze, outside the Formatter, and outside the round trip
beyondTypes == <<scopeVars, walkVars, analyzeVars, formatterVars, roundTripVars>>
beyondScope == <<ctx, text, walkVars, analyzeVars, formatterVars, roundTripVars>>
beyondWalk ==
  <<typesVars, formatVars, scopeVars, analyzeVars, formatterVars, roundTripVars>>
beyondAnalyze ==
  <<typesVars, formatVars, scopeVars, walkVars, formatterVars, roundTripVars>>
beyondFormatter ==
  <<typesVars, formatVars, scopeVars, walkVars, analyzeVars, roundTripVars>>
beyondRoundTrip ==
  <<typesVars, formatVars, scopeVars, walkVars, analyzeVars, formatterVars>>

vars ==
  <<typesVars, formatVars, scopeVars, walkVars, analyzeVars, formatterVars,
    roundTripVars>>

-----------------------------------------------------------------------------
(* Value constructors *)

Undef == [form |-> "undefined"]

Str(k) == [form |-> "string", kind |-> k]

List(s) == [form |-> "list", items |-> s]

Obj(k, el, rt, ps, ao, ex) ==
  [form |-> "object", kind |-> k, elements |-> el, returns |-> rt,
   params |-> ps, anyOf |-> ao, extra |-> ex]

Param(n, t) == [form |-> "param", name |-> n, type |-> t]

IterResult(v) == [form |-> "iterResult", value |-> v, done |-> FALSE]

Throw(e) == [form |-> "throw", error |-> e]

\* the kind read from a value that has no `kind` (JavaScript undefined)
NoKind == "<undefined>"

\* JavaScript truthiness of a modelled value (no modelled string is empty)
Truthy(v) == v.form # "undefined"

IsArray(v) == v.form = "list"

\* property reads: a property read on a string or on an object lacking it
\* yields undefined
KindOf(v) == IF v.form = "object" THEN v.kind ELSE NoKind
ElementsOf(v) == IF v.form = "object" THEN v.elements ELSE Undef
ReturnsOf(v) == IF v.form = "object" THEN v.returns ELSE Undef
ParamsOf(v) == IF v.form = "object" THEN v.params ELSE Undef
AnyOfOf(v) == IF v.form = "object" THEN v.anyOf ELSE Undef

-----------------------------------------------------------------------------
(* TypeKind, getKind, hasKind, isFalsy, isTruthy, isUnion, getUnionTypes *)

TypeKind ==
  {"undefined", "null", "boolean", "number", "string", "symbol", "object",
   "function", "array", "union", "any"}

getKind(type) ==
  CASE type.form = "list" -> "union"
    [] type.form \in {"object", "param", "iterResult"} -> KindOf(type)
    [] type.form = "string" -> type.kind
    [] OTHER -> NoKind

hasKind(type, kind) ==
  IF IsArray(type)
    THEN \E i \in 1..Len(type.items) : getKind(type.items[i]) = kind
    ELSE getKind(type) = kind

RECURSIVE isFalsy(_)
isFalsy(type) ==
  IF IsArray(type)
    THEN Len(type.items) > 0 /\ \A i \in 1..Len(type.items) : isFalsy(type.items[i])
    ELSE getKind(type) \in {"undefined", "null"}

RECURSIVE isTruthy(_)
isTruthy(type) ==
  IF IsArray(type)
    THEN Len(type.items) > 0 /\ \A i \in 1..Len(type.items) : isTruthy(type.items[i])
    ELSE getKind(type) \in {"symbol", "object", "function", "array"}

isUnion(type) == IsArray(type) \/ (Truthy(type) /\ KindOf(type) = "union")

\* the alternatives, as a sequence
getUnionTypes(type) ==
  IF IsArray(type) THEN type.items
  ELSE IF Truthy(type)
    THEN (IF Truthy(AnyOfOf(type)) THEN AnyOfOf(type).items ELSE <<type>>)
    ELSE <<>>

-----------------------------------------------------------------------------
(* isAssignable *)

\* isAssignable with one of two slips: "covariantParams" checks the
\* parameters target <- source, "untypedArray" lets a target array without
\* element type accept every array
RECURSIVE isAssignableWith(_, _, _)
isAssignableWith(target, source, slip) ==
  IF isUnion(source)
    THEN \A i \in 1..Len(getUnionTypes(source)) :
           isAssignableWith(target, getUnionTypes(source)[i], slip)
  ELSE IF isUnion(target)
    THEN \E i \in 1..Len(getUnionTypes(target)) :
           isAssignableWith(getUnionTypes(target)[i], source, slip)
  ELSE
    LET targetKind == getKind(target)
        sourceKind == getKind(source)
    IN CASE targetKind = NoKind -> FALSE
         [] targetKind \in {"undefined", "null", "boolean", "number", "string", "symbol"} ->
              sourceKind = targetKind
         [] targetKind = "object" ->
              sourceKind = targetKind \/ sourceKind = "array"
         [] targetKind = "function" ->
              /\ sourceKind = targetKind
              /\ isAssignableWith(ReturnsOf(target), ReturnsOf(source), slip)
              /\ Truthy(ParamsOf(target))
              /\ Truthy(ParamsOf(source))
              /\ Len(ParamsOf(target).items) = Len(ParamsOf(source).items)
              /\ \A i \in 1..Len(ParamsOf(source).items) :
                   IF slip = "covariantParams"
                     THEN isAssignableWith(ParamsOf(target).items[i].type,
                                           ParamsOf(source).items[i].type, slip)
                     ELSE isAssignableWith(ParamsOf(source).items[i].type,
                                           ParamsOf(target).items[i].type, slip)
         [] targetKind = "array" ->
              /\ sourceKind = targetKind
              /\ \/ slip = "untypedArray" /\ ~Truthy(ElementsOf(target))
                 \/ isAssignableWith(ElementsOf(target), ElementsOf(source), slip)
         [] targetKind = "any" -> TRUE
         [] OTHER -> FALSE

isAssignableCovariant(target, source) == isAssignableWith(target, source, "covariantParams")

isAssignableUntypedArray(target, source) == isAssignableWith(target, source, "untypedArray")

RECURSIVE isAssignable(_, _)
isAssignable(target, source) ==
  IF isUnion(source)
    THEN \A i \in 1..Len(getUnionTypes(source)) :
           isAssignable(target, getUnionTypes(source)[i])
  ELSE IF isUnion(target)
    THEN \E i \in 1..Len(getUnionTypes(target)) :
           isAssignable(getUnionTypes(target)[i], source)
  ELSE
    LET targetKind == getKind(target)
        sourceKind == getKind(source)
    IN CASE targetKind = NoKind -> FALSE
         [] targetKind \in {"undefined", "null", "boolean", "number", "string", "symbol"} ->
              sourceKind = targetKind
         [] targetKind = "object" ->
              sourceKind = targetKind \/ sourceKind = "array"
         [] targetKind = "function" ->
              /\ sourceKind = targetKind
              /\ isAssignable(ReturnsOf(target), ReturnsOf(source))
              /\ Truthy(ParamsOf(target))
              /\ Truthy(ParamsOf(source))
              /\ Len(ParamsOf(target).items) = Len(ParamsOf(source).items)
              /\ \A i \in 1..Len(ParamsOf(source).items) :
                   isAssignable(ParamsOf(source).items[i].type,
                                ParamsOf(target).items[i].type)
         [] targetKind = "array" ->
              sourceKind = targetKind /\ isAssignable(ElementsOf(target), ElementsOf(source))
         [] targetKind = "any" -> TRUE
         \* the switch has no default: any other kind falls out of the
         \* function, whose undefined result is falsy to every caller
         [] OTHER -> FALSE

-----------------------------------------------------------------------------
(* union *)

\* A JavaScript Set keeps insertion order and compares members with
\* SameValueZero: strings by content, objects by identity.  A member is
\* modelled as [val, id]; `id` names the object (the list it came from and
\* its position), and the alternatives of `b` carry the ids of `a` when the
\* caller passed one and the same object for both arguments.
Member(v, side, i) == [val |-> v, id |-> <<side, i>>]

SameValueZero(m, n) ==
  IF m.val.form = "string" /\ n.val.form = "string"
    THEN m.val.kind = n.val.kind
    ELSE m.id = n.id

SetHas(members, m) == \E i \in 1..Len(members) : SameValueZero(members[i], m)

SetAdd(members, m) == IF SetHas(members, m) THEN members ELSE Append(members, m)

SetDelete(members, m) == SelectSeq(members, LAMBDA n : ~SameValueZero(n, m))

RECURSIVE SetFrom(_, _, _)
SetFrom(types, side, n) ==
  IF n = 0 THEN <<>>
  ELSE SetAdd(SetFrom(types, side, n - 1), Member(types[n], side, n))

\* one iteration of the inner loop of union: the pair (be, ae)
MergePair(members, be, ae) ==
  IF isAssignable(be.val, ae.val)
    THEN IF isAssignable(ae.val, be.val)
           THEN members
           ELSE SetAdd(SetDelete(members, ae), be)
    ELSE IF isAssignable(ae.val, be.val)
           THEN members
           ELSE SetAdd(members, be)

\* the loops of union, run over the first n of the Len(bTypes) * Len(aTypes)
\* pairs, `be` outer and `ae` inner
RECURSIVE MergeLoop(_, _, _, _, _)
MergeLoop(aTypes, bTypes, bSide, members0, n) ==
  IF n = 0 THEN members0
  ELSE LET j == ((n - 1) \div Len(aTypes)) + 1
           i == ((n - 1) % Len(aTypes)) + 1
       IN MergePair(MergeLoop(aTypes, bTypes, bSide, members0, n - 1),
                    Member(bTypes[j], bSide, j),
                    Member(aTypes[i], "a", i))

\* the Set `members` when the loops of union are done
MergeMembers(x, y, sameObject) ==
  LET aTypes == getUnionTypes(x)
      bTypes == getUnionTypes(y)
      bSide == IF sameObject THEN "a" ELSE "b"
  IN MergeLoop(aTypes, bTypes, bSide, SetFrom(aTypes, "a", Len(aTypes)),
               Len(aTypes) * Len(bTypes))

MergeUnions(x, y, sameObject) ==
  LET members == MergeMembers(x, y, sameObject)
  IN IF Len(members) # 1
       THEN List([i \in 1..Len(members) |-> members[i].val])
       ELSE IterResult(members[1].val)

\* union(a, b); sameObject says that the caller passed the same object twice
union(x, y, sameObject) ==
  IF Truthy(x) /\ Truthy(y)
    THEN IF isAssignable(x, y) THEN x
         ELSE IF isAssignable(y, x) THEN y
         ELSE IF isUnion(x)
           THEN IF isUnion(y)
                  THEN MergeUnions(x, y, sameObject)
                  ELSE List(Append(getUnionTypes(x), y))
         ELSE IF isUnion(y)
           THEN List(<<x>> \o getUnionTypes(y))
         ELSE List(<<x, y>>)
    ELSE Undef

-----------------------------------------------------------------------------
(* toCanonical, toShorthand and the transform helpers *)

\* An exception thrown inside a nested call aborts every enclosing call.
Failed(v) == v.form = "throw"

\* the first exception thrown while mapping over an array
FirstFailed(s) ==
  s[CHOOSE i \in 1..Len(s) : Failed(s[i]) /\ \A j \in 1..(i - 1) : ~Failed(s[j])]

\* fn(x) for the function value fn handed to a transform helper, which is
\* toCanonical or toShorthand
RECURSIVE Call(_, _)

\* `a.every((v, i) => v === b[i])`.  The model's values carry no identity;
\* toCanonical and toShorthand return their argument itself whenever the
\* result is structurally equal to it, so === between an argument and its
\* image is structural equality.
arrayElementsEqual(x, y) == \A i \in 1..Len(x.items) : x.items[i] = y.items[i]

mapIfChanged(arr, fn) ==
  LET newArr == List([i \in 1..Len(arr.items) |-> Call(fn, arr.items[i])])
  IN IF \E i \in 1..Len(newArr.items) : Failed(newArr.items[i])
       THEN FirstFailed(newArr.items)
       ELSE IF arrayElementsEqual(arr, newArr) THEN arr ELSE newArr

transformFunction(type, fn) ==
  LET returns == IF Truthy(type.returns) THEN Call(fn, type.returns) ELSE type.returns
      params == IF Truthy(type.params) THEN mapIfChanged(type.params, fn) ELSE type.params
  IN IF Failed(returns) THEN returns
     ELSE IF Failed(params) THEN params
     ELSE IF returns # type.returns \/ params # type.params
       THEN IF params # type.params
              \* `results.params = params`: `results` is not declared
              THEN Throw("ReferenceError")
              ELSE [type EXCEPT !.returns = returns]
       ELSE type

\* transformArray building the changed object afresh instead of cloning
\* `type`
transformArrayNoSpread(type, fn) ==
  IF Truthy(type.elements)
    THEN LET elements == Call(fn, type.elements)
         IN IF Failed(elements) THEN elements
            ELSE IF elements # type.elements
              THEN Obj("array", elements, Undef, Undef, Undef, 0)
              ELSE type
    ELSE type

transformArray(type, fn) ==
  IF Truthy(type.elements)
    THEN LET elements == Call(fn, type.elements)
         IN IF Failed(elements) THEN elements
            ELSE IF elements # type.elements
              THEN [type EXCEPT !.elements = elements]
              ELSE type
    ELSE type

transformUnion(type, fn) ==
  IF Truthy(type.anyOf)
    THEN LET anyOf == mapIfChanged(type.anyOf, fn)
         IN IF Failed(anyOf) THEN anyOf
            ELSE IF anyOf # type.anyOf
              THEN [type EXCEPT !.anyOf = anyOf]
              ELSE type
    ELSE type

transformNested(type, fn) ==
  CASE KindOf(type) = "function" -> transformFunction(type, fn)
    [] KindOf(type) = "array" -> transformArray(type, fn)
    [] KindOf(type) = "union" -> transformUnion(type, fn)
    [] OTHER -> type

toCanonical(type) ==
  IF IsArray(type)
    THEN LET anyOf == [i \in 1..Len(type.items) |-> Call("toCanonical", type.items[i])]
         IN IF \E i \in 1..Len(anyOf) : Failed(anyOf[i])
              THEN FirstFailed(anyOf)
              ELSE Obj("union", Undef, Undef, Undef, List(anyOf), 0)
  ELSE IF type.form = "string"
    THEN Obj(type.kind, Undef, Undef, Undef, Undef, 0)
  ELSE IF Truthy(type) THEN transformNested(type, "toCanonical")
  ELSE type

\* toShorthand leaving the objects of the primitive kinds as they are
toShorthandKeepPrimitive(type) ==
  IF Truthy(type) /\ KindOf(type) # NoKind
    THEN CASE type.kind = "function" ->
                IF ~Truthy(type.returns) /\ ~Truthy(type.params)
                  THEN Str(type.kind)
                  ELSE transformFunction(type, "toShorthand")
           [] type.kind = "array" ->
                IF ~Truthy(type.elements)
                  THEN Str(type.kind)
                  ELSE transformArray(type, "toShorthand")
           [] type.kind = "union" ->
                IF Truthy(type.anyOf)
                  THEN mapIfChanged(type.anyOf, "toShorthand")
                  ELSE Throw("TypeError")
           [] OTHER -> type
  ELSE IF IsArray(type) THEN mapIfChanged(type, "toShorthand")
  ELSE type

toShorthand(type) ==
  IF Truthy(type) /\ KindOf(type) # NoKind
    THEN CASE type.kind = "function" ->
                IF ~Truthy(type.returns) /\ ~Truthy(type.params)
                  THEN Str(type.kind)
                  ELSE transformFunction(type, "toShorthand")
           [] type.kind = "array" ->
                IF ~Truthy(type.elements)
                  THEN Str(type.kind)
                  ELSE transformArray(type, "toShorthand")
           [] type.kind = "union" ->
                IF Truthy(type.anyOf)
                  THEN mapIfChanged(type.anyOf, "toShorthand")
                  \* `undefined.map` inside mapIfChanged
                  ELSE Throw("TypeError")
           [] OTHER -> Str(type.kind)
  ELSE IF IsArray(type) THEN mapIfChanged(type, "toShorthand")
  ELSE type

Call(fn, x) == IF fn = "toCanonical" THEN toCanonical(x) ELSE toShorthand(x)

-----------------------------------------------------------------------------
(* formatType, formatParam *)

\* `precedence` when no branch of formatType assigned it (undefined)
NoPrecedence == -1

\* Array.prototype.join
RECURSIVE Join(_, _)
Join(strs, sep) ==
  IF Len(strs) = 0 THEN ""
  ELSE IF Len(strs) = 1 THEN strs[1]
  ELSE strs[1] \o sep \o Join(Tail(strs), sep)

\* formatType whose final test is `precedence < contextPrecedence + slack`
RECURSIVE formatTypeWith(_, _, _)
formatTypeWith(type, contextPrecedence, slack) ==
  LET wrap(result, precedence) ==
        IF precedence # NoPrecedence /\ precedence < contextPrecedence + slack
          THEN "(" \o result \o ")" ELSE result
      param(p) ==
        LET paramType == formatTypeWith(p.type, 0, slack) IN
        IF p.name # "" /\ Truthy(p.type) THEN p.name \o ": " \o paramType
        ELSE IF Truthy(p.type) THEN ":" \o paramType
        ELSE IF p.name # "" THEN p.name ELSE "_"
  IN
  IF isUnion(type)
    THEN LET alts == getUnionTypes(type) IN
         wrap(Join([i \in 1..Len(alts) |-> formatTypeWith(alts[i], 1, slack)], " | "),
              IF Len(alts) > 0 THEN 1 ELSE NoPrecedence)
  ELSE LET kind == getKind(type) IN
    CASE kind = NoKind -> wrap("unknown", NoPrecedence)
      [] kind = "function" ->
           LET ps == ParamsOf(type)
               rt == ReturnsOf(type)
           IN wrap("function"
                     \o (IF Truthy(ps)
                           THEN "(" \o Join([i \in 1..Len(ps.items) |-> param(ps.items[i])], ", ") \o ")"
                           ELSE "")
                     \o (IF Truthy(rt) THEN ": " \o formatTypeWith(rt, 2, slack) ELSE ""),
                   IF Truthy(rt) THEN 2 ELSE NoPrecedence)
      [] kind = "array" /\ Truthy(ElementsOf(type)) ->
           formatTypeWith(ElementsOf(type), 3, slack) \o "[]"
      [] OTHER -> wrap(kind, NoPrecedence)

\* formatType that also parenthesizes at equal precedence
formatTypeNonStrict(type, contextPrecedence) == formatTypeWith(type, contextPrecedence, 1)

RECURSIVE formatType(_, _)
RECURSIVE formatParam(_)

\* `precedence` is assigned 1 by the callback of the union's map (so only
\* when there is an alternative), 2 before formatting `returns`, and 3 on the
\* array branch, which returns before the final test; undefined < n is false
formatType(type, contextPrecedence) ==
  IF isUnion(type)
    THEN LET alts == getUnionTypes(type)
             result == Join([i \in 1..Len(alts) |-> formatType(alts[i], 1)], " | ")
             precedence == IF Len(alts) > 0 THEN 1 ELSE NoPrecedence
         IN IF precedence # NoPrecedence /\ precedence < contextPrecedence
              THEN "(" \o result \o ")" ELSE result
  ELSE LET kind == getKind(type) IN
    IF kind = "array" /\ Truthy(ElementsOf(type))
      THEN formatType(ElementsOf(type), 3) \o "[]"
    ELSE
      LET ps == ParamsOf(type)
          rt == ReturnsOf(type)
          result ==
            CASE kind = NoKind -> "unknown"
              [] kind = "function" ->
                   kind
                     \o (IF Truthy(ps)
                           THEN "(" \o Join([i \in 1..Len(ps.items) |-> formatParam(ps.items[i])], ", ") \o ")"
                           ELSE "")
                     \o (IF Truthy(rt) THEN ": " \o formatType(rt, 2) ELSE "")
              [] OTHER -> kind
          precedence ==
            IF kind = "function" /\ Truthy(rt) THEN 2 ELSE NoPrecedence
      IN IF precedence # NoPrecedence /\ precedence < contextPrecedence
           THEN "(" \o result \o ")" ELSE result

\* a Parameter without name holds name = ""
formatParam(param) ==
  LET paramType == formatType(param.type, 0) IN
  IF param.name # "" /\ Truthy(param.type) THEN param.name \o ": " \o paramType
  ELSE IF Truthy(param.type) THEN ":" \o paramType
  ELSE IF param.name # "" THEN param.name ELSE "_"

-----------------------------------------------------------------------------
(* The types the calls are made on *)

\* longest union (number of alternatives)
MaxLen == 2
\* longest parameter list
MaxParams == 1
\* deepest nesting of array types
MaxDepth == 2

SeqsUpTo(S, lo, hi) == UNION {[1..n -> S] : n \in lo..hi}

Plain(k) == Obj(k, Undef, Undef, Undef, Undef, 0)

LeafKinds == {"null", "number", "object", "array", "function", "any"}

ShorthandLeaves == {Str(k) : k \in LeafKinds}

CanonicalLeaves == {Plain(k) : k \in LeafKinds}

ElementPool ==
  {Str("any"), Str("number"), Plain("number"), List(<<Str("number"), Str("null")>>)}

RECURSIVE ArrayTypes(_)
ArrayTypes(d) ==
  IF d = 0 THEN {}
  ELSE {Obj("array", e, Undef, Undef, Undef, 0) : e \in ElementPool \cup ArrayTypes(d - 1)}

ParamPool == {Param("", Str("any")), Param("", Str("number")), Param("x", Undef)}

ReturnPool == {Undef, Str("any"), Str("number"), Plain("number")}

FunctionTypes ==
  {Obj("function", Undef, r, ps, Undef, 0) :
     r \in ReturnPool,
     ps \in {Undef} \cup {List(s) : s \in SeqsUpTo(ParamPool, 0, MaxParams)}}

ShorthandUnions ==
  {List(s) : s \in SeqsUpTo({Str("null"), Str("number"), Str("object"), Str("array")},
                             1, MaxLen)}

CanonicalUnions ==
  {Obj("union", Undef, Undef, Undef, List(s), 0) :
     s \in SeqsUpTo({Plain("number"), Plain("array")}, 1, MaxLen)}

BaseTypes ==
  {Undef} \cup ShorthandLeaves \cup CanonicalLeaves \cup ArrayTypes(MaxDepth)
    \cup FunctionTypes \cup ShorthandUnions \cup CanonicalUnions

\* a type object with a property attached by the caller
WithExtra(t) == [t EXCEPT !.extra = 1]

Types == BaseTypes \cup {WithExtra(t) : t \in {u \in BaseTypes : u.form = "object"}}

KindArgs == {"null", "number", "array", "union"}

-----------------------------------------------------------------------------
(* The calls *)

TypesInit ==
  /\ a \in Types
  /\ \/ same = FALSE /\ b \in BaseTypes
     \/ same = TRUE /\ b = a
  /\ op = "init"
  /\ karg = ""
  /\ ret = Undef
  /\ flag = FALSE
  /\ FormatIdle
  /\ ScopeIdle
  /\ WalkIdle
  /\ AnalyzeIdle
  /\ FormatterIdle
  /\ RoundTripIdle

CallIsAssignable ==
  /\ op' = "isAssignable"
  /\ flag' = isAssignable(a, b)
  /\ ret' = Undef
  /\ karg' = ""
  /\ UNCHANGED <<a, b, same>>
  /\ UNCHANGED <<formatVars, beyondTypes>>

CallUnion ==
  /\ op' = "union"
  /\ ret' = union(a, b, same)
  /\ flag' = FALSE
  /\ karg' = ""
  /\ UNCHANGED <<a, b, same>>
  /\ UNCHANGED <<formatVars, beyondTypes>>

CallToCanonical ==
  /\ op' = "toCanonical"
  /\ ret' = toCanonical(a)
  /\ flag' = FALSE
  /\ karg' = ""
  /\ UNCHANGED <<a, b, same>>
  /\ UNCHANGED <<formatVars, beyondTypes>>

CallToShorthand ==
  /\ op' = "toShorthand"
  /\ ret' = toShorthand(a)
  /\ flag' = FALSE
  /\ karg' = ""
  /\ UNCHANGED <<a, b, same>>
  /\ UNCHANGED <<formatVars, beyondTypes>>

CallHasKind ==
  \E k \in KindArgs :
    /\ op' = "hasKind"
    /\ karg' = k
    /\ flag' = hasKind(a, k)
    /\ ret' = Undef
    /\ UNCHANGED <<a, b, same>>
    /\ UNCHANGED <<formatVars, beyondTypes>>

CallIsFalsy ==
  /\ op' = "isFalsy"
  /\ flag' = isFalsy(a)
  /\ ret' = Undef
  /\ karg' = ""
  /\ UNCHANGED <<a, b, same>>
  /\ UNCHANGED <<formatVars, beyondTypes>>

CallIsTruthy ==
  /\ op' = "isTruthy"
  /\ flag' = isTruthy(a)
  /\ ret' = Undef
  /\ karg' = ""
  /\ UNCHANGED <<a, b, same>>
  /\ UNCHANGED <<formatVars, beyondTypes>>

TypesNext ==
  \/ CallIsAssignable
  \/ CallUnion
  \/ CallToCanonical
  \/ CallToShorthand
  \/ CallHasKind
  \/ CallIsFalsy
  \/ CallIsTruthy

TypesSpec == TypesInit /\ [][TypesNext]_vars

-----------------------------------------------------------------------------
(* The types formatType is called on *)

\* deepest nesting of the formatted types
MaxNest == 3

FormatLeaves == {Str("number"), Str("string")}

FormatParamPool ==
  {Undef,
   List(<<>>),
   List(<<Param("", List(<<Str("string"), Str("null")>>))>>),
   List(<<Param("x", Str("number")), Param("y", Undef), Param("", Undef)>>)}

\* arrays, functions and unions over the types of the level below
RECURSIVE FormatNested(_)
FormatNested(d) ==
  IF d = 0 THEN FormatLeaves
  ELSE LET below == FormatNested(d - 1) IN
    below
      \cup {Obj("array", e, Undef, Undef, Undef, 0) : e \in below}
      \cup {Obj("function", Undef, r, ps, Undef, 0) :
              r \in {Undef} \cup below, ps \in FormatParamPool}
      \cup {List(<<t, Str("string")>>) : t \in below}
      \cup {List(<<Str("number"), t>>) : t \in below}
      \cup {List(<<t>>) : t \in FormatLeaves}
      \cup {Obj("union", Undef, Undef, Undef, List(<<Plain("number"), t>>), 0) :
              t \in FormatLeaves}

FormatTypes ==
  FormatNested(MaxNest)
    \cup {Undef, List(<<>>), Str("function"), Str("array"), Plain("array"),
          Plain("object")}

ContextPrecedences == 0..3

FormatInit ==
  /\ a \in FormatTypes
  /\ b = Undef
  /\ same = FALSE
  /\ op = "init"
  /\ karg = ""
  /\ ret = Undef
  /\ flag = FALSE
  /\ FormatIdle
  /\ ScopeIdle
  /\ WalkIdle
  /\ AnalyzeIdle
  /\ FormatterIdle
  /\ RoundTripIdle

CallFormatType ==
  \E c \in ContextPrecedences :
    /\ op' = "formatType"
    /\ ctx' = c
    /\ text' = formatType(a, c)
    /\ UNCHANGED <<a, b, same, karg, ret, flag>>
    /\ UNCHANGED beyondTypes

FormatNext == CallFormatType

FormatSpec == FormatInit /\ [][FormatNext]_vars

-----------------------------------------------------------------------------
(* Scope *)

(***************************************************************************)
(* Member data is arbitrary.  The values stored here are                   *)
(*   null                  [form |-> "null"]                               *)
(*   0, '', false, 1       [form |-> "primitive", value |-> "0"] ...       *)
(*   an object             [form |-> "data", tag, members], `tag` telling  *)
(*                         one object from another, `members` holding      *)
(*                         undefined, null or a map                        *)
(*   a map {name: data}    [form |-> "map", props |-> function]            *)
(*   Object.prototype[n]   [form |-> "builtin", name |-> n]                *)
(*   a Scope               [form |-> "scope", id |-> position in scopes]   *)
(* A map is an object literal, so it inherits the properties of            *)
(* Object.prototype.                                                       *)
(***************************************************************************)

JsNull == [form |-> "null"]

Prim(v) == [form |-> "primitive", value |-> v]

Data(tag, members) == [form |-> "data", tag |-> tag, members |-> members]

Map(f) == [form |-> "map", props |-> f]

Builtin(n) == [form |-> "builtin", name |-> n]

ScopeRef(i) == [form |-> "scope", id |-> i]

NoProps == [n \in {} |-> Undef]

OneProp(n, v) == [k \in {n} |-> v]

\* the primitives that are falsy: 0, '' and false
FalsyPrims == {"0", "''", "false"}

\* JavaScript truthiness of member data
TruthyData(v) ==
  /\ v.form \notin {"undefined", "null"}
  /\ ~(v.form = "primitive" /\ v.value \in FalsyPrims)

\* names every object literal inherits from Object.prototype
PrototypeNames == {"toString"}

\* `name in map`
HasProperty(map, name) == name \in DOMAIN map.props \/ name \in PrototypeNames

\* `map[name]`
GetProperty(map, name) ==
  IF name \in DOMAIN map.props THEN map.props[name]
  ELSE IF name \in PrototypeNames THEN Builtin(name)
  ELSE Undef

\* `map[name] = value`
SetProperty(map, name, value) ==
  Map([k \in DOMAIN map.props \cup {name} |-> IF k = name THEN value ELSE map.props[k]])

\* `v.members`: a TypeError on null and undefined, undefined on a primitive
\* or a function
ReadMembers(v) ==
  IF v.form \in {"undefined", "null"} THEN Throw("TypeError")
  ELSE IF v.form = "data" THEN v.members
  ELSE Undef

\* new Scope(thisRef, strict, parent, topLevel, members); position 0 stands
\* for the parent null
NewScope(parent, topLevel, members) ==
  [parent |-> parent, topLevel |-> topLevel, members |-> members]

withMembers(members) == NewScope(0, FALSE, members)

createNested(ss, this) == Append(ss, NewScope(this, FALSE, Map(NoProps)))

RECURSIVE getRoot(_, _)
getRoot(ss, this) ==
  IF ss[this].parent # 0 THEN getRoot(ss, ss[this].parent) ELSE this

RECURSIVE getTopLevel(_, _)
getTopLevel(ss, this) ==
  IF ~ss[this].topLevel /\ ss[this].parent # 0
    THEN getTopLevel(ss, ss[this].parent) ELSE this

setTopLevel(ss, this) == [ss EXCEPT ![this].topLevel = TRUE]

getOwnMember(ss, this, name) == GetProperty(ss[this].members, name)

\* the scopes after the call and what it returned or threw; `value = {}`
\* stores a new object when value is undefined
addOwnMember(ss, this, name, value) ==
  LET stored == IF value = Undef THEN Data(0, Undef) ELSE value IN
  IF HasProperty(ss[this].members, name)
    THEN [scopes |-> ss, ret |-> Throw("Error: already defined")]
    ELSE [scopes |-> [ss EXCEPT ![this].members = SetProperty(@, name, stored)],
          ret |-> stored]

\* `scope` runs from this to the root; position 0 (null) ends the loop
RECURSIVE findMember(_, _, _)
findMember(ss, scope, name) ==
  IF scope = 0 THEN Undef
  ELSE LET member == getOwnMember(ss, scope, name) IN
       IF TruthyData(member) THEN member
       ELSE findMember(ss, ss[scope].parent, name)

\* a qualified name: an array of identifiers, or a string held as the
\* sequence of its characters
QArray(parts) == [form |-> "list", items |-> parts]

QString(chars) == [form |-> "string", chars |-> chars]

\* String.prototype.split('.'), `cur` being the part read so far
RECURSIVE SplitFrom(_, _)
SplitFrom(chars, cur) ==
  IF Len(chars) = 0 THEN <<cur>>
  ELSE IF Head(chars) = "." THEN <<cur>> \o SplitFrom(Tail(chars), "")
  ELSE SplitFrom(Tail(chars), cur \o Head(chars))

\* the while loop of resolve: `member.members && member.members[parts.shift()]`
\* shifts only when member.members is truthy
RECURSIVE resolveLoop(_, _)
resolveLoop(member, parts) ==
  IF member # Undef /\ Len(parts) > 0
    THEN LET members == ReadMembers(member) IN
         IF Failed(members) THEN members
         ELSE IF TruthyData(members)
           THEN resolveLoop(IF members.form = "map"
                              THEN GetProperty(members, Head(parts)) ELSE Undef,
                            Tail(parts))
         ELSE resolveLoop(members, parts)
    ELSE member

resolve(ss, this, qname) ==
  LET parts == IF qname.form = "list" THEN qname.items ELSE SplitFrom(qname.chars, "")
  IN IF Len(parts) > 0
       THEN resolveLoop(findMember(ss, this, Head(parts)), Tail(parts))
       ELSE Undef

-----------------------------------------------------------------------------
(* The Scope calls *)

\* most scopes constructed
MaxScopes == 2

MemberNames == {"a", "toString"}

\* {}, the default value
EmptyObject == Data(1, Undef)

\* {members: {b: {members: {c: {}}}}}
NestedObject == Data(2, Map(OneProp("b", Data(3, Map(OneProp("c", EmptyObject))))))

\* {members: {b: null}}
NullMemberObject == Data(4, Map(OneProp("b", JsNull)))

\* {members: null}
NullMembersObject == Data(5, JsNull)

MemberValues ==
  {Undef, EmptyObject, NestedObject, NullMemberObject, NullMembersObject, Prim("0")}

QNames ==
  {QArray(<<>>), QArray(<<"a">>), QArray(<<"a", "b">>), QArray(<<"a", "b", "c">>),
   QString(<<"a", ".", "b", ".", "c">>), QString(<<"t", "o", "S", "t", "r", "i", "n", "g">>),
   QString(<<>>)}

TypesIdle ==
  /\ a = Undef /\ b = Undef /\ same = FALSE /\ op = "init"
  /\ karg = "" /\ ret = Undef /\ flag = FALSE

\* new Scope(), or Scope.withMembers of a map of the caller
ScopeInit ==
  /\ scopes \in {<<NewScope(0, TRUE, Map(NoProps))>>,
                 <<withMembers(Map(NoProps))>>,
                 <<withMembers(Map(OneProp("a", NestedObject)))>>}
  /\ scall = [method |-> "constructor"]
  /\ sret = Undef
  /\ TypesIdle
  /\ FormatIdle
  /\ WalkIdle
  /\ AnalyzeIdle
  /\ FormatterIdle
  /\ RoundTripIdle

CallCreateNested ==
  \E this \in 1..Len(scopes) :
    /\ Len(scopes) < MaxScopes
    /\ scopes' = createNested(scopes, this)
    /\ scall' = [method |-> "createNested", this |-> this]
    /\ sret' = ScopeRef(Len(scopes) + 1)
    /\ UNCHANGED <<typesVars, beyondScope>>

CallSetTopLevel ==
  \E this \in 1..Len(scopes) :
    /\ scopes' = setTopLevel(scopes, this)
    /\ scall' = [method |-> "setTopLevel", this |-> this]
    /\ sret' = ScopeRef(this)
    /\ UNCHANGED <<typesVars, beyondScope>>

CallGetTopLevel ==
  \E this \in 1..Len(scopes) :
    /\ scall' = [method |-> "getTopLevel", this |-> this]
    /\ sret' = ScopeRef(getTopLevel(scopes, this))
    /\ UNCHANGED <<scopes, typesVars, beyondScope>>

CallGetRoot ==
  \E this \in 1..Len(scopes) :
    /\ scall' = [method |-> "getRoot", this |-> this]
    /\ sret' = ScopeRef(getRoot(scopes, this))
    /\ UNCHANGED <<scopes, typesVars, beyondScope>>

CallAddOwnMember ==
  \E this \in 1..Len(scopes), name \in MemberNames, value \in MemberValues :
    LET r == addOwnMember(scopes, this, name, value) IN
    /\ scopes' = r.scopes
    /\ scall' = [method |-> "addOwnMember", this |-> this, name |-> name, value |-> value]
    /\ sret' = r.ret
    /\ UNCHANGED <<typesVars, beyondScope>>

CallFindMember ==
  \E this \in 1..Len(scopes), name \in MemberNames :
    /\ scall' = [method |-> "findMember", this |-> this, name |-> name]
    /\ sret' = findMember(scopes, this, name)
    /\ UNCHANGED <<scopes, typesVars, beyondScope>>

CallResolve ==
  \E this \in 1..Len(scopes), qname \in QNames :
    /\ scall' = [method |-> "resolve", this |-> this, qname |-> qname]
    /\ sret' = resolve(scopes, this, qname)
    /\ UNCHANGED <<scopes, typesVars, beyondScope>>

ScopeNext ==
  \/ CallCreateNested
  \/ CallSetTopLevel
  \/ CallGetTopLevel
  \/ CallGetRoot
  \/ CallAddOwnMember
  \/ CallFindMember
  \/ CallResolve

ScopeSpec == ScopeInit /\ [][ScopeNext]_vars

-----------------------------------------------------------------------------
(* ESTree nodes *)

(***************************************************************************)
(* A node is a record with its `type`, a `uid` telling it from every other *)
(* node of the tree (object identity), and the children the node type has. *)
(* A child that is absent (null) is NoNode.                                *)
(***************************************************************************)

NoNode == [type |-> "<none>"]

Identifier(i, name) == [type |-> "Identifier", uid |-> i, name |-> name]

Literal(i, value) == [type |-> "Literal", uid |-> i, value |-> value]

Program(i, body) == [type |-> "Program", uid |-> i, body |-> body]

ExpressionStatement(i, expression) ==
  [type |-> "ExpressionStatement", uid |-> i, expression |-> expression,
   directive |-> ""]

\* a statement of the directive prologue
DirectiveStatement(i, expression, directive) ==
  [type |-> "ExpressionStatement", uid |-> i, expression |-> expression,
   directive |-> directive]

BlockStatement(i, body) == [type |-> "BlockStatement", uid |-> i, body |-> body]

ReturnStatement(i, argument) ==
  [type |-> "ReturnStatement", uid |-> i, argument |-> argument]

VariableDeclaration(i, kind, declarations) ==
  [type |-> "VariableDeclaration", uid |-> i, kind |-> kind, declarations |-> declarations]

VariableDeclarator(i, id, init) ==
  [type |-> "VariableDeclarator", uid |-> i, id |-> id, init |-> init]

FunctionDeclaration(i, id, params, body) ==
  [type |-> "FunctionDeclaration", uid |-> i, id |-> id, params |-> params,
   body |-> body]

FunctionExpression(i, id, params, body) ==
  [type |-> "FunctionExpression", uid |-> i, id |-> id, params |-> params,
   body |-> body]

ClassDeclaration(i, id, superClass, body) ==
  [type |-> "ClassDeclaration", uid |-> i, id |-> id, superClass |-> superClass,
   body |-> body]

ClassBody(i, body) == [type |-> "ClassBody", uid |-> i, body |-> body]

MethodDefinition(i, key, value) ==
  [type |-> "MethodDefinition", uid |-> i, key |-> key, value |-> value,
   computed |-> FALSE]

Property(i, key, value) ==
  [type |-> "Property", uid |-> i, key |-> key, value |-> value, computed |-> FALSE]

TryStatement(i, block, handler) ==
  [type |-> "TryStatement", uid |-> i, block |-> block, handler |-> handler,
   finalizer |-> NoNode]

CatchClause(i, param, body) ==
  [type |-> "CatchClause", uid |-> i, param |-> param, body |-> body]

BinaryExpression(i, operator, left, right) ==
  [type |-> "BinaryExpression", uid |-> i, operator |-> operator, left |-> left,
   right |-> right]

LogicalExpression(i, operator, left, right) ==
  [type |-> "LogicalExpression", uid |-> i, operator |-> operator, left |-> left,
   right |-> right]

AssignmentExpression(i, left, right) ==
  [type |-> "AssignmentExpression", uid |-> i, operator |-> "=", left |-> left,
   right |-> right]

MemberExpression(i, object, property) ==
  [type |-> "MemberExpression", uid |-> i, object |-> object, property |-> property,
   computed |-> FALSE]

ArrayPattern(i, elements) == [type |-> "ArrayPattern", uid |-> i, elements |-> elements]

ObjectPattern(i, properties) ==
  [type |-> "ObjectPattern", uid |-> i, properties |-> properties]

RestElement(i, argument) == [type |-> "RestElement", uid |-> i, argument |-> argument]

ForStatement(i, init, test, update, body) ==
  [type |-> "ForStatement", uid |-> i, init |-> init, test |-> test,
   update |-> update, body |-> body]

ConditionalExpression(i, test, consequent, alternate) ==
  [type |-> "ConditionalExpression", uid |-> i, test |-> test,
   consequent |-> consequent, alternate |-> alternate]

AwaitExpression(i, argument) ==
  [type |-> "AwaitExpression", uid |-> i, argument |-> argument]

ArrayExpression(i, elements) ==
  [type |-> "ArrayExpression", uid |-> i, elements |-> elements]

UpdateExpression(i, operator, prefix, argument) ==
  [type |-> "UpdateExpression", uid |-> i, operator |-> operator, prefix |-> prefix,
   argument |-> argument]

CallExpression(i, callee, arguments) ==
  [type |-> "CallExpression", uid |-> i, callee |-> callee, arguments |-> arguments]

WithStatement(i, object, body) ==
  [type |-> "WithStatement", uid |-> i, object |-> object, body |-> body]

\* left operator right, the operator being += or another compound one
CompoundAssignment(i, operator, left, right) ==
  [type |-> "AssignmentExpression", uid |-> i, operator |-> operator, left |-> left,
   right |-> right]

\* object[property]
ComputedMember(i, object, property) ==
  [type |-> "MemberExpression", uid |-> i, object |-> object, property |-> property,
   computed |-> TRUE]

\* a node of a type the walker has no walker for
JSXElement(i) == [type |-> "JSXElement", uid |-> i]

-----------------------------------------------------------------------------
(* walk *)

\* visitor groups and context-dependent overrides; "" is the override
\* undefined
Directive == "Directive"
Pattern == "Pattern"
FunctionBody == "FunctionBody"
AssignmentProperty == "AssignmentProperty"
NoOverride == ""

StatementTypes ==
  {"ExpressionStatement", "BlockStatement", "ReturnStatement", "TryStatement"}

ExpressionTypes ==
  {"BinaryExpression", "LogicalExpression", "AssignmentExpression", "MemberExpression",
   "Identifier", "Literal"}

\* groups[type], in order of increasing specificity; <<>> when type is not
\* in groups
groups(type) ==
  CASE type = "VariableDeclaration" -> <<"Statement", "Declaration">>
    [] type = "FunctionDeclaration" -> <<"Declaration", "Function">>
    [] type = "FunctionExpression" -> <<"Expression", "Function">>
    [] type = "ClassDeclaration" -> <<"Declaration", "Class">>
    [] type \in StatementTypes -> <<"Statement">>
    [] type \in ExpressionTypes -> <<"Expression">>
    [] OTHER -> <<>>

\* the keys of `walkers`
WalkerKeys ==
  {"Program", "FunctionBody", "VariableDeclaration", "VariableDeclarator",
   "FunctionDeclaration", "FunctionExpression", "ClassDeclaration", "ClassBody",
   "MethodDefinition", "Property", "ExpressionStatement", "BlockStatement",
   "ReturnStatement", "TryStatement", "CatchClause", "BinaryExpression",
   "LogicalExpression", "AssignmentExpression", "MemberExpression", "Identifier",
   "Literal", "ArrayPattern", "ObjectPattern", "AssignmentProperty", "RestElement"}

Step(node, override) == [node |-> node, override |-> override]

\* the visits present children only: `if (node.init) visit(...)`
Present(steps) == SelectSeq(steps, LAMBDA st : st.node # NoNode)

EachOf(nodes, override) == [i \in 1..Len(nodes) |-> Step(nodes[i], override)]

\* the statements of a Program or FunctionBody, directives overridden
BodySteps(body) ==
  [i \in 1..Len(body) |->
     Step(body[i],
          IF body[i].type = "ExpressionStatement" /\ body[i].directive # ""
            THEN Directive ELSE NoOverride)]

\* walkers[key](node, state, visit): the visit calls it makes, in order
walkerSteps(key, node) ==
  CASE key \in {"Program", "FunctionBody"} -> BodySteps(node.body)
    [] key = "VariableDeclaration" -> EachOf(node.declarations, NoOverride)
    [] key = "VariableDeclarator" ->
         Present(<<Step(node.id, Pattern), Step(node.init, NoOverride)>>)
    [] key \in {"FunctionDeclaration", "FunctionExpression"} ->
         Present(<<Step(node.id, Pattern)>>) \o EachOf(node.params, Pattern)
           \o <<Step(node.body, FunctionBody)>>
    [] key = "ClassDeclaration" ->
         Present(<<Step(node.id, Pattern), Step(node.superClass, NoOverride)>>)
           \o <<Step(node.body, NoOverride)>>
    [] key = "ClassBody" -> EachOf(node.body, NoOverride)
    [] key \in {"MethodDefinition", "Property"} ->
         <<Step(node.key, IF ~node.computed THEN Pattern ELSE NoOverride),
           Step(node.value, NoOverride)>>
    [] key = "ExpressionStatement" -> <<Step(node.expression, NoOverride)>>
    [] key = "BlockStatement" -> EachOf(node.body, NoOverride)
    [] key = "ReturnStatement" -> Present(<<Step(node.argument, NoOverride)>>)
    [] key = "TryStatement" ->
         <<Step(node.block, NoOverride)>>
           \o Present(<<Step(node.handler, NoOverride), Step(node.finalizer, NoOverride)>>)
    [] key = "CatchClause" ->
         Present(<<Step(node.param, Pattern)>>) \o <<Step(node.body, NoOverride)>>
    [] key \in {"BinaryExpression", "LogicalExpression"} ->
         <<Step(node.left, NoOverride), Step(node.right, NoOverride)>>
    [] key = "AssignmentExpression" ->
         <<Step(node.left, Pattern), Step(node.right, NoOverride)>>
    [] key = "MemberExpression" ->
         <<Step(node.object, NoOverride),
           Step(node.property, IF ~node.computed THEN Pattern ELSE NoOverride)>>
    [] key = "ArrayPattern" -> Present(EachOf(node.elements, Pattern))
    [] key = "ObjectPattern" ->
         EachOf(node.properties,
                IF node.type = "Property" THEN AssignmentProperty ELSE NoOverride)
    [] key = "AssignmentProperty" ->
         <<Step(node.key, IF ~node.computed THEN Pattern ELSE NoOverride),
           Step(node.value, Pattern)>>
    [] key = "RestElement" -> <<Step(node.argument, Pattern)>>
    [] OTHER -> <<>>

\* the state handed to walk or returned by a hook; the boolean false
StateObject(tag) == [form |-> "state", tag |-> tag]

False == [form |-> "boolean", value |-> FALSE]

\* a visitor: visitors[vtype + 'Before'] when phase is "Before",
\* visitors[vtype] when phase is "After".  What it does: "undefined" returns
\* nothing, "false" returns false, "state" returns a state object of its
\* own, "visit" visits the children with the visit function it is handed
\* and returns false
Hook(vtype, phase, does) == [vtype |-> vtype, phase |-> phase, does |-> does]

HasHook(visitors, vtype, phase) ==
  \E h \in visitors : h.vtype = vtype /\ h.phase = phase

TheHook(visitors, vtype, phase) ==
  CHOOSE h \in visitors : h.vtype = vtype /\ h.phase = phase

\* one hook invocation: the visitor, the node and state it was handed, and
\* the contents of the ancestors array at the call
Invocation(hook, node, state, ancestors) ==
  [vtype |-> hook.vtype, phase |-> hook.phase, does |-> hook.does,
   node |-> node.uid, state |-> state, ancestors |-> ancestors]

\* the effects of a walk so far: hook invocations, the ancestors array
\* (undefined when the caller's state has none), an exception in flight
Effects(trace, ancestors, thrown) ==
  [trace |-> trace, ancestors |-> ancestors, thrown |-> thrown]

\* ancestors.push(node), ancestors.pop()
Push(w, node) ==
  IF w.ancestors.form = "list"
    THEN [w EXCEPT !.ancestors = List(Append(w.ancestors.items, node.uid))]
    ELSE w

PopKeep(w) == w

Pop(w) ==
  IF w.ancestors.form = "list"
    THEN [w EXCEPT !.ancestors =
            List(SubSeq(w.ancestors.items, 1, Len(w.ancestors.items) - 1))]
    ELSE w

\* `if (beforeResult) state = beforeResult`
Replace(state, result) ==
  IF result.form \notin {"undefined", "boolean"} THEN result ELSE state

\* visitorTypes.reverse()
ReverseNot(visitorTypes) == visitorTypes

Reverse(visitorTypes) ==
  [i \in 1..Len(visitorTypes) |-> visitorTypes[Len(visitorTypes) + 1 - i]]

\* `if (beforeResult === false) break` and `if (beforeResult !== false)`
SkipsNever(beforeResult) == FALSE

Skips(beforeResult) == beforeResult = False

VisitorTypes(type, override) ==
  (IF override # NoOverride THEN <<override>> ELSE groups(type)) \o <<type>>

RECURSIVE visit(_, _, _, _, _)
RECURSIVE visitEach(_, _, _, _, _)
RECURSIVE beforeVisitors(_, _, _, _, _, _, _)
RECURSIVE afterVisitors(_, _, _, _, _, _)

\* the loop of a walker (or of a hook) over its visit calls, from the i-th;
\* an exception ends it
visitEach(visitors, steps, state, i, w) ==
  IF i > Len(steps) \/ w.thrown THEN w
  ELSE visitEach(visitors, steps, state, i + 1,
                 visit(visitors, steps[i].node, state, steps[i].override, w))

\* the loop over the before-visitors, from the i-th; beforeResult is the
\* result of the last one invoked
beforeVisitors(visitors, node, override, state, i, beforeResult, w) ==
  LET visitorTypes == VisitorTypes(node.type, override) IN
  IF i > Len(visitorTypes)
    THEN [state |-> state, beforeResult |-> beforeResult, w |-> w]
  ELSE IF ~HasHook(visitors, visitorTypes[i], "Before")
    THEN beforeVisitors(visitors, node, override, state, i + 1, beforeResult, w)
  ELSE
    LET hook == TheHook(visitors, visitorTypes[i], "Before")
        called == [w EXCEPT !.trace =
                     Append(@, Invocation(hook, node, state, w.ancestors))]
        key == IF override \in WalkerKeys THEN override ELSE node.type
        after == IF hook.does = "visit"
                   THEN visitEach(visitors, walkerSteps(key, node), state, 1, called)
                   ELSE called
        result == CASE hook.does = "undefined" -> Undef
                    [] hook.does = "state" -> StateObject(hook.vtype \o hook.phase)
                    [] OTHER -> False
    IN IF after.thrown \/ Skips(result)
         THEN [state |-> state, beforeResult |-> result, w |-> after]
         ELSE beforeVisitors(visitors, node, override, Replace(state, result), i + 1,
                             result, after)

\* the loop over the after-visitors, visitorTypes being reversed
afterVisitors(visitors, node, visitorTypes, state, i, w) ==
  IF i > Len(visitorTypes) THEN w
  ELSE IF ~HasHook(visitors, visitorTypes[i], "After")
    THEN afterVisitors(visitors, node, visitorTypes, state, i + 1, w)
  ELSE
    LET hook == TheHook(visitors, visitorTypes[i], "After")
        called == [w EXCEPT !.trace =
                     Append(@, Invocation(hook, node, state, w.ancestors))]
        result == IF hook.does = "state"
                    THEN StateObject(hook.vtype \o hook.phase) ELSE Undef
    IN afterVisitors(visitors, node, visitorTypes, Replace(state, result), i + 1, called)

\* visit(node, state, override) inside walk; an exception leaves the
\* function without the final pop
visit(visitors, node, state, override, w) ==
  LET visitorTypes == VisitorTypes(node.type, override)
      before == beforeVisitors(visitors, node, override, state, 1, Undef, Push(w, node))
  IN
  IF before.w.thrown THEN before.w
  ELSE IF Skips(before.beforeResult) THEN Pop(before.w)
  ELSE
    LET key == IF override \in WalkerKeys THEN override ELSE node.type IN
    IF key \notin WalkerKeys THEN [before.w EXCEPT !.thrown = TRUE]
    ELSE
      LET walked == visitEach(visitors, walkerSteps(key, node), before.state, 1, before.w)
      IN IF walked.thrown THEN walked
         ELSE Pop(afterVisitors(visitors, node, Reverse(visitorTypes), before.state,
                                1, walked))

\* walk(ast, state, visitors), given the array state.ancestors (undefined
\* when state has none)
walk(ast, state, ancestors, visitors) ==
  visit(visitors, ast, state, NoOverride, Effects(<<>>, ancestors, FALSE))

-----------------------------------------------------------------------------
(* The walk calls *)

\* most visitors handed to walk at once
MaxHooks == 2

\* var x = 1 + y; class C { m() { return 1 } }
DeclarationTree ==
  Program(1, <<
    VariableDeclaration(2, "var", <<
      VariableDeclarator(3, Identifier(4, "x"),
        BinaryExpression(5, "+", Literal(6, "1"), Identifier(7, "y")))>>),
    ClassDeclaration(8, Identifier(9, "C"), NoNode,
      ClassBody(10, <<
        MethodDefinition(11, Identifier(12, "m"),
          FunctionExpression(13, NoNode, <<>>,
            BlockStatement(14, <<ReturnStatement(15, Literal(16, "1"))>>)))>>))>>)

\* function f(a, ...r) { try { return a } catch (e) { e } }
FunctionTree ==
  Program(1, <<
    FunctionDeclaration(2, Identifier(3, "f"),
      <<Identifier(4, "a"), RestElement(5, Identifier(6, "r"))>>,
      BlockStatement(7, <<
        TryStatement(8,
          BlockStatement(9, <<ReturnStatement(10, Identifier(11, "a"))>>),
          CatchClause(12, Identifier(13, "e"),
            BlockStatement(14, <<ExpressionStatement(15, Identifier(16, "e"))>>)))>>))>>)

\* ({a, b: c} = o)
ObjectPatternTree ==
  Program(1, <<
    ExpressionStatement(2,
      AssignmentExpression(3,
        ObjectPattern(4, <<Property(5, Identifier(6, "a"), Identifier(7, "a")),
                           Property(8, Identifier(9, "b"), Identifier(10, "c"))>>),
        Identifier(11, "o")))>>)

\* var {a} = o; [p] = o.m
DestructuringTree ==
  Program(1, <<
    VariableDeclaration(2, "var", <<
      VariableDeclarator(3,
        ObjectPattern(4, <<Property(5, Identifier(6, "a"), Identifier(7, "a"))>>),
        Identifier(8, "o"))>>),
    ExpressionStatement(9,
      AssignmentExpression(10, ArrayPattern(11, <<Identifier(12, "p")>>),
        MemberExpression(13, Identifier(14, "o"), Identifier(15, "m"))))>>)

\* 'use strict'; x; <a/>
UnhandledTree ==
  Program(1, <<
    DirectiveStatement(2, Literal(3, "use strict"), "use strict"),
    ExpressionStatement(4, Identifier(5, "x")),
    ExpressionStatement(6, JSXElement(7))>>)

WalkTrees ==
  {DeclarationTree, FunctionTree, ObjectPatternTree, DestructuringTree, UnhandledTree}

HookTypes == {"Statement", "Declaration", "Expression", "Pattern", "Identifier"}

HookPool ==
  {Hook(t, "Before", d) : t \in HookTypes, d \in {"undefined", "false", "state", "visit"}}
    \cup {Hook(t, "After", d) : t \in HookTypes, d \in {"undefined", "state"}}

\* the visitors objects of at most n functions: each key holds one function
RECURSIVE VisitorsUpTo(_)
VisitorsUpTo(n) ==
  IF n = 0 THEN {{}}
  ELSE LET fewer == VisitorsUpTo(n - 1) IN
       fewer \cup {V \cup {h} : V \in fewer, h \in HookPool}

OneFunctionPerKey(V) ==
  \A g, h \in V : (g.vtype = h.vtype /\ g.phase = h.phase) => g = h

VisitorSets == {V \in VisitorsUpTo(MaxHooks) : OneFunctionPerKey(V)}

\* walk(ast, undefined, visitors), or walk(ast, {ancestors: []}, visitors)
WalkInit ==
  /\ wast \in WalkTrees
  /\ wvisitors \in VisitorSets
  /\ \/ wstate = Undef /\ wancestors = Undef
     \/ wstate = StateObject("caller") /\ wancestors = List(<<>>)
  /\ wtrace = <<>>
  /\ wend = "none"
  /\ TypesIdle
  /\ FormatIdle
  /\ ScopeIdle
  /\ AnalyzeIdle
  /\ FormatterIdle
  /\ RoundTripIdle

CallWalk ==
  /\ wend = "none"
  /\ LET w == walk(wast, wstate, wancestors, wvisitors) IN
     /\ wtrace' = w.trace
     /\ wancestors' = w.ancestors
     /\ wend' = IF w.thrown THEN "thrown" ELSE "returned"
  /\ UNCHANGED <<wast, wvisitors, wstate>>
  /\ UNCHANGED beyondWalk

WalkNext == CallWalk

WalkSpec == WalkInit /\ [][WalkNext]_vars

-----------------------------------------------------------------------------
(* analyze *)

(***************************************************************************)
(* An analysis result is an object {name, type, value, constant, thrown,   *)
(* members}, held as                                                       *)
(*   [form |-> "info", oid, name, type, value, constant, thrown, members]  *)
(* `oid` telling one object from another, name "" and type undefined       *)
(* standing for a property the object does not have, and Absent for an     *)
(* object without a `value`, `thrown` or `members` property (a value may   *)
(* be undefined, null or falsy).  The records analyze adds to a scope are  *)
(* such objects.  A value is undefined, null, a number, a string, a        *)
(* boolean (held as the primitive named by its source text) or an array    *)
(* of values.  The functions analyzed are neither async nor generators.    *)
(* An object reached through two properties is held twice; whoever writes  *)
(* to it stores it wherever the scopes hold it (Store), and whoever kept   *)
(* it across a visit reads it again (Deref).                               *)
(***************************************************************************)

Absent == [form |-> "absent"]

Info(oid, name, type, value) ==
  [form |-> "info", oid |-> oid, name |-> name, type |-> type, value |-> value,
   constant |-> FALSE, thrown |-> Absent, members |-> Absent]

\* an array value
ArrayValue(items) == [form |-> "array", items |-> items]

NumberNames == {"-1", "0", "1", "2", "3", "NaN"}

\* the number n as a value
Num(n) ==
  Prim(CASE n = -1 -> "-1" [] n = 0 -> "0" [] n = 1 -> "1" [] n = 2 -> "2"
         [] n = 3 -> "3")

NaN == Prim("NaN")

\* the string with the given text as a value
StringValue(chars) == Prim("'" \o chars \o "'")

IsNumber(v) == v.form = "primitive" /\ v.value \in NumberNames

IsBoolean(v) == v.form = "primitive" /\ v.value \in {"false", "true"}

IsString(v) == v.form = "primitive" /\ ~IsNumber(v) /\ ~IsBoolean(v)

\* String(v) for the values the trees compute with; an array is joined
ToText(v) ==
  CASE v = JsNull -> "null"
    [] v = Undef -> "undefined"
    [] v = Prim("''") -> ""
    [] v = Prim("'s'") -> "s"
    [] IsNumber(v) \/ IsBoolean(v) -> v.value
    [] v = ArrayValue(<<>>) -> ""
    [] v = ArrayValue(<<Prim("1")>>) -> "1"

\* Number(v) is NaN
IsNaN(v) == v = Undef \/ v = Prim("'s'") \/ v = NaN

\* Number(v) for the values the trees compute with, when it is not NaN
ToNumber(v) ==
  CASE v = JsNull \/ v = Prim("0") \/ v = Prim("''") \/ v = Prim("false")
         \/ v = ArrayValue(<<>>) -> 0
    [] v = Prim("1") \/ v = Prim("true") \/ v = ArrayValue(<<Prim("1")>>) -> 1
    [] v = Prim("2") -> 2

\* l + r
JsAdd(l, r) ==
  IF IsString(l) \/ IsString(r) \/ l.form = "array" \/ r.form = "array"
    THEN StringValue(ToText(l) \o ToText(r))
  ELSE IF IsNaN(l) \/ IsNaN(r) THEN NaN
  ELSE Num(ToNumber(l) + ToNumber(r))

\* v + d for d = 1 or -1, as ++ and -- compute it
JsStep(v, d) == IF IsNaN(v) THEN NaN ELSE Num(ToNumber(v) + d)

\* Number(v), as the postfix ++ and -- return it
JsNumeric(v) == IF IsNaN(v) THEN NaN ELSE Num(ToNumber(v))

\* an own property of an array: an index below the length, or `length`
ArrayIndex(key, items) ==
  IF IsNumber(key) /\ key.value \in {"0", "1", "2"} /\ ToNumber(key) < Len(items)
    THEN ToNumber(key) + 1
  ELSE IF key = Prim("'0'") /\ 0 < Len(items) THEN 1
  ELSE IF key = Prim("'1'") /\ 1 < Len(items) THEN 2
  ELSE 0

\* l in r: a TypeError unless r is an object
JsIn(l, r) ==
  IF r.form # "array" THEN Throw("TypeError")
  ELSE IF ArrayIndex(l, r.items) > 0 \/ l = Prim("'length'") THEN Prim("true")
  ELSE Prim("false")

\* l instanceof r: a TypeError unless r is callable, and no value is
JsInstanceof(l, r) == Throw("TypeError")

\* object[property]: a TypeError on null and undefined
JsMember(object, property) ==
  IF object.form \in {"null", "undefined"} THEN Throw("TypeError")
  ELSE IF object.form = "array"
    THEN (IF ArrayIndex(property, object.items) > 0
            THEN object.items[ArrayIndex(property, object.items)]
          ELSE IF property = Prim("'length'") THEN Num(Len(object.items))
          ELSE Undef)
  ELSE IF IsString(object)
    THEN (IF property = Prim("'length'")
            THEN (IF object = Prim("''") THEN Num(0) ELSE Num(1))
          ELSE IF object = Prim("'s'") /\ property \in {Prim("0"), Prim("'0'")}
            THEN object
          ELSE Undef)
  ELSE Undef

\* `'value' in info`, info being an object or a function
HasValue(info) == info.form = "info" /\ info.value # Absent

\* `info.type`
TypeOf(info) == IF info.form = "info" THEN info.type ELSE Undef

kindOf(v) ==
  CASE v.form = "null" -> Str("null")
    [] IsNumber(v) -> Str("number")
    [] IsBoolean(v) -> Str("boolean")
    [] v.form = "primitive" -> Str("string")
    [] OTHER -> Str(v.form)

\* arrayOf(elements); null and undefined are falsy
arrayOf(elements) ==
  IF elements \in {Undef, JsNull} THEN Str("array")
  ELSE Obj("array", elements, Undef, Undef, Undef, 0)

isNotAssignable(target, source) == Truthy(target) /\ ~isAssignable(target, source)

\* l || r and l && r on values
LogicalOr(l, r) == IF TruthyData(l) THEN l ELSE r

LogicalAnd(l, r) == IF TruthyData(l) THEN r ELSE l

\* Object.assign(target, source): the own properties of source are copied
ObjectAssign(target, source) ==
  IF source.form # "info" THEN target
  ELSE [target EXCEPT
          !.name = IF source.name # "" THEN source.name ELSE @,
          !.type = IF source.type # Undef THEN source.type ELSE @,
          !.value = IF source.value # Absent THEN source.value ELSE @,
          !.constant = source.constant \/ @,
          !.thrown = IF source.thrown # Absent THEN source.thrown ELSE @,
          !.members = IF source.members # Absent THEN source.members ELSE @]

\* the member data v with the object `info.oid` replaced by `info`,
\* wherever v holds it
RECURSIVE StoreIn(_, _)
StoreIn(v, info) ==
  IF v.form # "info" THEN v
  ELSE IF v.oid = info.oid THEN info
  ELSE IF v.members = Absent THEN v
  ELSE [v EXCEPT !.members =
          Map([k \in DOMAIN v.members.props |-> StoreIn(v.members.props[k], info)])]

\* a write to a property of an object: the scopes with the object
\* `info.oid` replaced by `info`
Store(ss, info) ==
  [i \in 1..Len(ss) |->
     LET props == ss[i].members.props IN
     [ss[i] EXCEPT !.members = Map([k \in DOMAIN props |-> StoreIn(props[k], info)])]]

\* the objects the member data v holds
RECURSIVE Held(_)
Held(v) ==
  IF v.form # "info" THEN {}
  ELSE {v} \cup (IF v.members = Absent THEN {}
                 ELSE UNION {Held(v.members.props[k]) : k \in DOMAIN v.members.props})

\* the object as the scopes hold it now, or as it was when they do not
Deref(ss, info) ==
  LET held == UNION {UNION {Held(ss[i].members.props[k]) :
                              k \in DOMAIN ss[i].members.props} : i \in DOMAIN ss}
  IN IF info.form = "info" /\ \E h \in held : h.oid = info.oid
       THEN CHOOSE h \in held : h.oid = info.oid
       ELSE info

isTopLevel(ss, this) == ss[this].topLevel

\* The analysis in progress: the scopes, the visits recorded, and the
\* number of objects created; a visit yields the analysis after it and
\* what it returned or threw
Analysis(ss) == [scopes |-> ss, trace |-> <<>>, next |-> 1]

Result(s, value) == [s |-> s, ret |-> value]

Log(s, e) == [s EXCEPT !.trace = Append(@, e)]

\* scope.createNested() by the visitor of a node of type `by`; the new
\* scope is the last one
NestedScope(s, this, by) ==
  Log([s EXCEPT !.scopes = createNested(@, this)],
      [kind |-> "scope", scope |-> Len(s.scopes) + 1, by |-> by])

\* scope.createNested().setTopLevel()
NestedTopLevel(s, this, by) ==
  LET n == NestedScope(s, this, by) IN
  [n EXCEPT !.scopes = setTopLevel(@, Len(@))]

\* scope.addOwnMember(name, {name})
AddRecord(s, scope, name) ==
  LET r == addOwnMember(s.scopes, scope, name, Info(s.next, name, Undef, Absent)) IN
  Result([s EXCEPT !.scopes = r.scopes, !.next = @ + 1], r.ret)

\* two types that are one object are equal, and union returns an equal type
\* as it is
unionInfo(oid, x, y) ==
  IF TruthyData(x) /\ TruthyData(y)
    THEN Info(oid, "",
              IF Truthy(TypeOf(x)) /\ Truthy(TypeOf(y))
                THEN union(TypeOf(x), TypeOf(y), TypeOf(x) = TypeOf(y)) ELSE Undef,
              Absent)
    ELSE Undef

visitorIdentifier(s, ast, scope, declContext) ==
  LET name == ast.name
      ref == IF declContext = "" THEN findMember(s.scopes, scope, name) ELSE Undef
      target == IF declContext = "var" THEN getTopLevel(s.scopes, scope)
                ELSE IF declContext = "" THEN getRoot(s.scopes, scope)
                ELSE scope
      r == IF ~TruthyData(ref) THEN AddRecord(s, target, name) ELSE Result(s, ref)
  IN Result(Log(r.s, [kind |-> "identifier", uid |-> ast.uid, name |-> name,
                      declContext |-> declContext, scope |-> scope,
                      before |-> s.scopes, after |-> r.s.scopes, ret |-> r.ret]),
            r.ret)

visitorLiteral(s, ast) ==
  Result([s EXCEPT !.next = @ + 1],
         Info(s.next, "", kindOf(ast.value), ast.value))

declare(s, ast, scope) == AddRecord(s, scope, ast.id.name)

\* evaluate without the short circuit
evaluateUnion(oid, operator, leftInfo, rightInfo) ==
  unionInfo(oid, leftInfo, rightInfo)

\* evaluate(op, shortOp) of the LogicalExpression visitor
evaluate(oid, operator, leftInfo, rightInfo) ==
  LET shortOp == IF HasValue(leftInfo)
                   THEN (IF operator = "||" THEN TruthyData(leftInfo.value)
                         ELSE ~TruthyData(leftInfo.value))
                   ELSE (IF operator = "||" THEN isTruthy(TypeOf(leftInfo))
                         ELSE isFalsy(TypeOf(leftInfo)))
      result == unionInfo(oid, leftInfo, rightInfo)
  IN IF TruthyData(leftInfo) /\ shortOp THEN leftInfo
     ELSE IF TruthyData(leftInfo) /\ HasValue(leftInfo)
             /\ TruthyData(rightInfo) /\ HasValue(rightInfo)
       THEN [result EXCEPT !.value =
               IF operator = "||" THEN LogicalOr(leftInfo.value, rightInfo.value)
               ELSE LogicalAnd(leftInfo.value, rightInfo.value)]
     ELSE result

\* the operators of BinaryExpression and of AssignmentExpression that the
\* trees analyzed use
BooleanOperators == {"in", "instanceof"}

CompoundOperators == {"+=", "-="}

\* the type the BinaryExpression visitor passes to evaluate
binaryType(operator, leftInfo, rightInfo) ==
  LET leftType == IF TruthyData(leftInfo) THEN TypeOf(leftInfo) ELSE Undef
      rightType == IF TruthyData(rightInfo) THEN TypeOf(rightInfo) ELSE Undef
  IN CASE operator \in BooleanOperators -> Str("boolean")
       [] operator = "+" ->
            IF leftType = Str("string") \/ rightType = Str("string") THEN Str("string")
            ELSE IF isNotAssignable(leftType, Str("string"))
                    /\ isNotAssignable(rightType, Str("string")) THEN Str("number")
            ELSE Undef

\* op(leftInfo.value, rightInfo.value)
binaryOp(operator, l, r) ==
  CASE operator = "in" -> JsIn(l, r)
    [] operator = "instanceof" -> JsInstanceof(l, r)
    [] operator = "+" -> JsAdd(l, r)

\* evaluate without the try statement
evaluateBinaryUncaught(oid, type, operator, leftInfo, rightInfo) ==
  IF ~Truthy(type) THEN Undef
  ELSE IF TruthyData(leftInfo) /\ HasValue(leftInfo)
          /\ TruthyData(rightInfo) /\ HasValue(rightInfo)
    THEN LET value == binaryOp(operator, leftInfo.value, rightInfo.value) IN
         IF Failed(value) THEN value
         ELSE [Info(oid, "", type, Absent) EXCEPT !.value = value]
  ELSE Info(oid, "", type, Absent)

\* evaluate(type, op) of the BinaryExpression visitor; typeof of an error
\* is 'object'
evaluateBinary(oid, type, operator, leftInfo, rightInfo) ==
  IF ~Truthy(type) THEN Undef
  ELSE IF TruthyData(leftInfo) /\ HasValue(leftInfo)
          /\ TruthyData(rightInfo) /\ HasValue(rightInfo)
    THEN LET value == binaryOp(operator, leftInfo.value, rightInfo.value) IN
         IF Failed(value)
           THEN [Info(oid, "", type, Absent) EXCEPT
                   !.thrown = Info(oid + 1, "", Str("object"), Absent)]
           ELSE [Info(oid, "", type, Absent) EXCEPT !.value = value]
  ELSE Info(oid, "", type, Absent)

\* the name an assignment or update writes to, "" when the target is no
\* identifier
TargetName(node) == IF node.type = "Identifier" THEN node.name ELSE ""

RECURSIVE analyzeVisit(_, _, _, _)
RECURSIVE visitors(_, _, _, _)
RECURSIVE visitList(_, _, _, _)
RECURSIVE arrayElements(_, _, _, _, _)
RECURSIVE analyzeBody(_, _, _, _)
RECURSIVE visitParams(_, _, _)
RECURSIVE visitDeclarations(_, _, _, _)

\* the loop of analyzeBody over ast.body
analyzeBody(s, body, scope, processDirectives) ==
  IF body = <<>> THEN Result(s, Undef)
  ELSE LET stmt == Head(body) IN
       IF /\ processDirectives
          /\ stmt.type = "ExpressionStatement"
          /\ stmt.expression.type = "Literal"
          /\ stmt.expression.value = Prim("'use strict'")
         THEN analyzeBody(s, Tail(body), scope, TRUE)
       ELSE LET r == analyzeVisit(s, stmt, scope, "") IN
            IF Failed(r.ret) THEN r
            ELSE analyzeBody(r.s, Tail(body), scope, FALSE)

\* for (const param of ast.params) visit(param, scope, 'param')
visitParams(s, params, scope) ==
  IF params = <<>> THEN Result(s, Undef)
  ELSE LET r == analyzeVisit(s, Head(params), scope, "param") IN
       IF Failed(r.ret) THEN r ELSE visitParams(r.s, Tail(params), scope)

\* for (const node of nodes) if (node) visit(node, scope, declContext)
visitList(s, nodes, scope, declContext) ==
  IF nodes = <<>> THEN Result(s, Undef)
  ELSE IF Head(nodes) = NoNode THEN visitList(s, Tail(nodes), scope, declContext)
  ELSE LET r == analyzeVisit(s, Head(nodes), scope, declContext) IN
       IF Failed(r.ret) THEN r ELSE visitList(r.s, Tail(nodes), scope, declContext)

\* the loop of the ArrayExpression visitor; elemType is undefined, null or
\* a type, elemValues null or the array of the values so far
arrayElements(s, elements, scope, elemType, elemValues) ==
  IF elements = <<>>
    THEN Result([s EXCEPT !.next = @ + 1],
                [Info(s.next, "", arrayOf(elemType), Absent) EXCEPT
                   !.value = IF elemValues # JsNull THEN elemValues ELSE Absent])
  ELSE LET r == analyzeVisit(s, Head(elements), scope, "")
           elemInfo == r.ret
       IN IF Failed(r.ret) THEN r
          ELSE arrayElements(r.s, Tail(elements), scope,
                 IF TruthyData(elemInfo) /\ Truthy(TypeOf(elemInfo)) /\ elemType # JsNull
                   THEN (IF elemType = Undef THEN TypeOf(elemInfo)
                         ELSE union(elemType, TypeOf(elemInfo),
                                    elemType = TypeOf(elemInfo)))
                   ELSE JsNull,
                 IF TruthyData(elemInfo) /\ HasValue(elemInfo) /\ elemValues # JsNull
                   THEN ArrayValue(Append(elemValues.items, elemInfo.value))
                   ELSE JsNull)

\* the loop of the VariableDeclaration visitor; `varInfo.constant = true`
\* and Object.assign(varInfo, ...) are TypeErrors when varInfo is undefined
visitDeclarations(s, declarations, scope, kind) ==
  IF declarations = <<>> THEN Result(s, Undef)
  ELSE LET decl == Head(declarations)
           id == analyzeVisit(s, decl.id, scope, kind)
           varInfo == IF kind = "const" THEN [id.ret EXCEPT !.constant = TRUE]
                      ELSE id.ret
           init == analyzeVisit(IF id.ret = Undef THEN id.s
                                ELSE [id.s EXCEPT !.scopes = Store(@, varInfo)],
                                decl.init, scope, "")
       IN IF Failed(id.ret) THEN id
          ELSE IF id.ret = Undef /\ kind = "const" THEN Result(id.s, Throw("TypeError"))
          ELSE IF id.ret = Undef /\ decl.init = NoNode
            THEN visitDeclarations(id.s, Tail(declarations), scope, kind)
          ELSE IF id.ret = Undef
            THEN (IF Failed(init.ret) THEN init ELSE Result(init.s, Throw("TypeError")))
          ELSE IF decl.init = NoNode
            THEN visitDeclarations([id.s EXCEPT !.scopes = Store(@, varInfo)],
                                   Tail(declarations), scope, kind)
          ELSE IF Failed(init.ret) THEN init
          ELSE visitDeclarations(
                 [init.s EXCEPT !.scopes =
                    Store(@, ObjectAssign(Deref(init.s.scopes, varInfo), init.ret))],
                 Tail(declarations), scope, kind)

\* The MemberExpression visitor, step by step.  The special case when
\* object and property are constant: the member is the property of the value
memberConstant(after, objInfo, propValue, memberInfo) ==
  LET value == JsMember(objInfo.value, propValue) IN
  IF propValue # Undef /\ HasValue(objInfo)
    THEN (IF Failed(value) THEN Result(after, value)
          ELSE Result([after EXCEPT !.next = @ + 1],
                      Info(after.next, "", kindOf(value), value)))
    ELSE Result(after, memberInfo)

\* a[b]: propInfo is the analysis of the property expression
memberComputed(objInfo, propInfo) ==
  IF Failed(propInfo.ret) THEN propInfo
  ELSE memberConstant(propInfo.s, objInfo,
                      IF TruthyData(propInfo.ret) /\ HasValue(propInfo.ret)
                        THEN propInfo.ret.value ELSE Undef,
                      Undef)

\* a.b: inMembers is the visit of the property in
\* Scope.withMembers(objInfo.members), which finds the member or adds it
memberNamed(base, typed, name, inMembers) ==
  IF Failed(inMembers.ret) THEN Result(base, inMembers.ret)
  ELSE memberConstant([base EXCEPT
                         !.scopes = Store(@, [typed EXCEPT !.members =
                                                inMembers.s.scopes[1].members]),
                         !.next = inMembers.s.next],
                      [typed EXCEPT !.members = inMembers.s.scopes[1].members],
                      StringValue(name), inMembers.ret)

\* the object is assumed to be an 'object' unless it is known to be an
\* 'array'
memberObjectType(type) ==
  IF ~Truthy(type) THEN Str("object")
  ELSE IF ~hasKind(type, "array") THEN union(type, Str("object"), FALSE)
  ELSE type

memberProperty(base, typed, ast, scope) ==
  IF ast.computed
    THEN memberComputed(typed,
                        analyzeVisit([base EXCEPT !.scopes = Store(@, typed)],
                                     ast.property, scope, ""))
    ELSE memberNamed(base, typed, ast.property.name,
                     visitorIdentifier(
                       [base EXCEPT !.scopes =
                          <<withMembers(IF typed.members # Absent THEN typed.members
                                        ELSE Map(NoProps))>>],
                       ast.property, 1, ""))

\* object is the visit of ast.object; `visit(ast.object, scope) || {}`
memberExpression(object, ast, scope) ==
  IF Failed(object.ret) THEN object
  ELSE memberProperty([object.s EXCEPT !.next = @ + 1],
                      IF TruthyData(object.ret)
                        THEN [object.ret EXCEPT !.type = memberObjectType(@)]
                        ELSE Info(object.s.next, "", Str("object"), Absent),
                      ast, scope)

\* visit(ast, scope, declContext); what a visit returned is recorded
Visited(ast, r) ==
  IF Failed(r.ret) THEN r
  ELSE Result(Log(r.s, [kind |-> "visit", uid |-> ast.uid, type |-> ast.type,
                        ret |-> r.ret]),
              r.ret)

analyzeVisit(s, ast, scope, declContext) ==
  Visited(ast, visitors(s, ast, scope, declContext))

visitors(s, ast, scope, declContext) ==
  CASE ast.type = "Identifier" -> visitorIdentifier(s, ast, scope, declContext)
    [] ast.type = "Literal" -> visitorLiteral(s, ast)
    [] ast.type = "Program" ->
         analyzeBody(s, ast.body, scope, isTopLevel(s.scopes, scope))
    [] ast.type = "ExpressionStatement" -> analyzeVisit(s, ast.expression, scope, "")
    [] ast.type = "BlockStatement" ->
         analyzeBody(NestedScope(s, scope, ast.type), ast.body, Len(s.scopes) + 1, FALSE)
    [] ast.type = "ReturnStatement" ->
         IF ast.argument # NoNode THEN analyzeVisit(s, ast.argument, scope, "")
         ELSE Result(s, Undef)
    [] ast.type = "TryStatement" ->
         LET block == analyzeVisit(s, ast.block, scope, "")
             handlerScope == Len(block.s.scopes) + 1
             inner == NestedScope(block.s, scope, "CatchClause")
             param == IF ast.handler.param # NoNode
                        THEN analyzeVisit(inner, ast.handler.param, handlerScope, "catch")
                        ELSE Result(inner, Undef)
             handler == IF ast.handler = NoNode THEN Result(block.s, Undef)
                        ELSE IF Failed(param.ret) THEN param
                        ELSE analyzeBody(param.s, ast.handler.body.body, handlerScope,
                                         FALSE)
             finalizer == IF ast.finalizer # NoNode
                            THEN analyzeVisit(handler.s, ast.finalizer, scope, "")
                            ELSE Result(handler.s, Undef)
         IN IF Failed(block.ret) THEN block
            ELSE IF Failed(handler.ret) THEN handler
            ELSE IF Failed(finalizer.ret) THEN finalizer
            ELSE Result(finalizer.s, Undef)
    [] ast.type = "ForStatement" ->
         LET inner == Len(s.scopes) + 1
             init == IF ast.init # NoNode
                       THEN analyzeVisit(NestedScope(s, scope, ast.type), ast.init, inner, "")
                       ELSE Result(NestedScope(s, scope, ast.type), Undef)
             test == IF ast.test # NoNode THEN analyzeVisit(init.s, ast.test, inner, "")
                     ELSE Result(init.s, Undef)
             update == IF ast.update # NoNode
                         THEN analyzeVisit(test.s, ast.update, inner, "")
                         ELSE Result(test.s, Undef)
             body == analyzeVisit(update.s, ast.body, inner, "")
         IN IF Failed(init.ret) THEN init
            ELSE IF Failed(test.ret) THEN test
            ELSE IF Failed(update.ret) THEN update
            ELSE IF Failed(body.ret) THEN body
            ELSE Result(body.s, Undef)
    [] ast.type = "FunctionDeclaration" ->
         LET declared == declare(s, ast, scope)
             result == [declared.ret EXCEPT !.type = Str("function")]
             inner == Len(s.scopes) + 1
             params == visitParams(
                         NestedTopLevel([declared.s EXCEPT !.scopes = Store(@, result)],
                                        scope, ast.type),
                         ast.params, inner)
             body == analyzeBody(params.s, ast.body.body, inner, TRUE)
         IN IF Failed(declared.ret) THEN declared
            ELSE IF Failed(params.ret) THEN params
            ELSE IF Failed(body.ret) THEN body
            ELSE Result(body.s, result)
    [] ast.type = "FunctionExpression" ->
         LET result == Info(s.next, "", Str("function"), Absent)
             inner == Len(s.scopes) + 1
             params == visitParams(
                         NestedTopLevel([s EXCEPT !.next = @ + 1], scope, ast.type),
                         ast.params, inner)
             body == analyzeBody(params.s, ast.body.body, inner, TRUE)
         IN IF Failed(params.ret) THEN params
            ELSE IF Failed(body.ret) THEN body
            ELSE Result(body.s, result)
    [] ast.type = "VariableDeclaration" ->
         visitDeclarations(s, ast.declarations, scope,
                           IF ast.kind = "" THEN "var" ELSE ast.kind)
    [] ast.type = "AwaitExpression" ->
         LET argument == analyzeVisit(s, ast.argument, scope, "") IN
         IF Failed(argument.ret) THEN argument ELSE Result(argument.s, Undef)
    [] ast.type = "ConditionalExpression" ->
         LET testInfo == analyzeVisit(s, ast.test, scope, "")
             consequent == analyzeVisit(testInfo.s, ast.consequent, scope, "")
             alternate == analyzeVisit(consequent.s, ast.alternate, scope, "")
         IN IF Failed(testInfo.ret) THEN testInfo
            ELSE IF Failed(consequent.ret) THEN consequent
            ELSE IF Failed(alternate.ret) THEN alternate
            ELSE IF TruthyData(testInfo.ret) /\ HasValue(testInfo.ret)
              THEN Result(alternate.s,
                          IF TruthyData(testInfo.ret.value) THEN consequent.ret
                          ELSE alternate.ret)
            ELSE Result([alternate.s EXCEPT !.next = @ + 1],
                        unionInfo(alternate.s.next, consequent.ret, alternate.ret))
    [] ast.type = "LogicalExpression" ->
         LET left == analyzeVisit(s, ast.left, scope, "")
             rightInfo == analyzeVisit(left.s, ast.right, scope, "")
             leftInfo == Deref(rightInfo.s.scopes, left.ret)
             result == IF ast.operator \in {"||", "&&"}
                         THEN evaluate(rightInfo.s.next, ast.operator, leftInfo,
                                       rightInfo.ret)
                         ELSE Undef
         IN IF Failed(left.ret) THEN left
            ELSE IF Failed(rightInfo.ret) THEN rightInfo
            ELSE Result(Log([rightInfo.s EXCEPT !.next = @ + 1],
                            [kind |-> "logical", uid |-> ast.uid,
                             operator |-> ast.operator, left |-> leftInfo,
                             right |-> rightInfo.ret, ret |-> result]),
                        result)
    [] ast.type = "BinaryExpression" ->
         LET left == analyzeVisit(s, ast.left, scope, "")
             rightInfo == analyzeVisit(left.s, ast.right, scope, "")
             leftInfo == Deref(rightInfo.s.scopes, left.ret)
             result == evaluateBinary(rightInfo.s.next,
                                      binaryType(ast.operator, leftInfo, rightInfo.ret),
                                      ast.operator, leftInfo, rightInfo.ret)
         IN IF Failed(left.ret) THEN left
            ELSE IF Failed(rightInfo.ret) THEN rightInfo
            ELSE IF Failed(result) THEN Result(rightInfo.s, result)
            ELSE Result(Log([rightInfo.s EXCEPT !.next = @ + 2],
                            [kind |-> "binary", uid |-> ast.uid,
                             operator |-> ast.operator, left |-> leftInfo,
                             right |-> rightInfo.ret, ret |-> result]),
                        result)
    [] ast.type = "ArrayExpression" ->
         arrayElements(s, ast.elements, scope, Undef, ArrayValue(<<>>))
    [] ast.type = "ArrayPattern" -> visitList(s, ast.elements, scope, declContext)
    [] ast.type = "ObjectPattern" ->
         visitList(s, [i \in DOMAIN ast.properties |-> ast.properties[i].value], scope,
                   declContext)
    [] ast.type = "WithStatement" ->
         Result(s, Throw("Error: 'with' statement not supported"))
    [] ast.type = "UpdateExpression" ->
         LET valueInfo == analyzeVisit(s, ast.argument, scope, "")
             result == Info(valueInfo.s.next, "", Str("number"), Absent)
             value == IF ast.prefix
                        THEN JsStep(valueInfo.ret.value, IF ast.operator = "++" THEN 1 ELSE -1)
                        ELSE JsNumeric(valueInfo.ret.value)
             evaluated == IF ast.operator \in {"++", "--"} /\ TruthyData(valueInfo.ret)
                             /\ HasValue(valueInfo.ret)
                            THEN [result EXCEPT !.value = value] ELSE result
         IN IF Failed(valueInfo.ret) THEN valueInfo
            ELSE Result(Log([valueInfo.s EXCEPT !.next = @ + 1],
                            [kind |-> "write", uid |-> ast.uid,
                             name |-> TargetName(ast.argument), ret |-> evaluated]),
                        evaluated)
    [] ast.type = "AssignmentExpression" ->
         LET right == analyzeVisit(s, ast.right, scope, "")
             left == analyzeVisit(right.s, ast.left, scope, "")
             held == Deref(left.s.scopes, right.ret)
             result == IF ast.operator \in CompoundOperators
                         THEN [held EXCEPT !.type = Str("number")] ELSE held
         IN IF Failed(right.ret) THEN right
            ELSE IF Failed(left.ret) THEN left
            ELSE IF ast.operator \in CompoundOperators /\ right.ret = Undef
              THEN Result(left.s, Throw("TypeError"))
            ELSE Result(Log(IF result = Undef THEN left.s
                            ELSE [left.s EXCEPT !.scopes = Store(@, result)],
                            [kind |-> "write", uid |-> ast.uid,
                             name |-> TargetName(ast.left), ret |-> result]),
                        result)
    [] ast.type = "CallExpression" ->
         LET funcInfo == analyzeVisit(s, ast.callee, scope, "")
             called == IF TruthyData(funcInfo.ret)
                         THEN [funcInfo.s EXCEPT !.scopes =
                                 Store(@, [funcInfo.ret EXCEPT !.type = Str("function")])]
                         ELSE funcInfo.s
             arguments == visitList(called, ast.arguments, scope, "")
         IN IF Failed(funcInfo.ret) THEN funcInfo
            ELSE IF Failed(arguments.ret) THEN arguments
            ELSE Result(arguments.s, Undef)
    [] ast.type = "MemberExpression" ->
         memberExpression(analyzeVisit(s, ast.object, scope, ""), ast, scope)
    [] OTHER -> Result(s, Throw("Error: Unhandled AST node type"))

\* analyze(ast, rootScope), the root scope being ss[1]
analyze(ast, ss) == analyzeVisit(Analysis(ss), ast, 1, "")

-----------------------------------------------------------------------------
(* The analyze calls *)

\* a function () {}
EmptyFunction(i) == FunctionExpression(i, NoNode, <<>>, BlockStatement(i + 1, <<>>))

\* x ? consequent : alternate, with x undeclared
Either(i, consequent, alternate) ==
  ConditionalExpression(i, Identifier(i + 1, "x"), Literal(i + 2, consequent),
                        Literal(i + 3, alternate))

OperandNames ==
  {"null", "0", "1", "''", "'s'", "x", "toString", "function", "await",
   "null?", "number?", "union?", "0 || 's'"}

\* an operand of a logical expression, its nodes numbered from i
Operand(n, i) ==
  CASE n = "null" -> Literal(i, JsNull)
    [] n \in {"0", "1", "''", "'s'"} -> Literal(i, Prim(n))
    [] n \in {"x", "toString"} -> Identifier(i, n)
    [] n = "function" -> EmptyFunction(i)
    [] n = "await" -> AwaitExpression(i, Identifier(i + 1, "x"))
    [] n = "null?" -> Either(i, JsNull, JsNull)
    [] n = "number?" -> Either(i, Prim("0"), Prim("1"))
    [] n = "union?" -> Either(i, Prim("1"), Prim("'s'"))
    [] n = "0 || 's'" ->
         LogicalExpression(i, "||", Literal(i + 1, Prim("0")), Literal(i + 2, Prim("'s'")))

LogicalTrees ==
  {LogicalExpression(1, o, Operand(l, 2), Operand(r, 6)) :
     o \in {"||", "&&"}, l \in OperandNames, r \in OperandNames}

BindingNames == {"v", "toString"}

\* function f(p) { { try { n } catch (e) { for (;;) { var n } } } n }
VarTree(n) ==
  Program(1, <<
    FunctionDeclaration(2, Identifier(3, "f"), <<Identifier(4, "p")>>,
      BlockStatement(5, <<
        BlockStatement(6, <<
          TryStatement(7,
            BlockStatement(8, <<ExpressionStatement(9, Identifier(10, n))>>),
            CatchClause(11, Identifier(12, "e"),
              BlockStatement(13, <<
                ForStatement(14, NoNode, NoNode, NoNode,
                  BlockStatement(15, <<
                    VariableDeclaration(16, "var",
                      <<VariableDeclarator(17, Identifier(18, n), NoNode)>>)>>))>>)))>>),
        ExpressionStatement(19, Identifier(20, n))>>))>>)

\* var n = function (p) { p }; { let n = 1; for (const c = n;;) { var w; n } } n
LexicalTree(n) ==
  Program(1, <<
    VariableDeclaration(2, "var",
      <<VariableDeclarator(3, Identifier(4, n),
          FunctionExpression(5, NoNode, <<Identifier(6, "p")>>,
            BlockStatement(7, <<ExpressionStatement(8, Identifier(9, "p"))>>)))>>),
    BlockStatement(10, <<
      VariableDeclaration(11, "let",
        <<VariableDeclarator(12, Identifier(13, n), Literal(14, Prim("1")))>>),
      ForStatement(15,
        VariableDeclaration(16, "const",
          <<VariableDeclarator(17, Identifier(18, "c"), Identifier(19, n))>>),
        NoNode, NoNode,
        BlockStatement(20, <<
          VariableDeclaration(21, "var",
            <<VariableDeclarator(22, Identifier(23, "w"), NoNode)>>),
          ExpressionStatement(24, Identifier(25, n))>>))>>),
    ExpressionStatement(26, Identifier(27, n))>>)

\* 'use strict'; try { u } catch (n) { n; let u } function f(n) { return n || u }
ParameterTree(n) ==
  Program(1, <<
    ExpressionStatement(2, Literal(3, Prim("'use strict'"))),
    TryStatement(4,
      BlockStatement(5, <<ExpressionStatement(6, Identifier(7, "u"))>>),
      CatchClause(8, Identifier(9, n),
        BlockStatement(10, <<
          ExpressionStatement(11, Identifier(12, n)),
          VariableDeclaration(13, "let",
            <<VariableDeclarator(14, Identifier(15, "u"), NoNode)>>)>>))),
    FunctionDeclaration(16, Identifier(17, "f"), <<Identifier(18, n)>>,
      BlockStatement(19, <<
        ReturnStatement(20,
          LogicalExpression(21, "||", Identifier(22, n), Identifier(23, "u")))>>))>>)

BindingTrees ==
  UNION {{VarTree(n), LexicalTree(n), ParameterTree(n)} : n \in BindingNames}

ValueNames == {"null", "0", "1", "''", "'s'", "[]", "[1]", "x"}

\* an operand of a binary expression, its nodes numbered from i
ValueOperand(n, i) ==
  CASE n = "null" -> Literal(i, JsNull)
    [] n \in {"0", "1", "''", "'s'"} -> Literal(i, Prim(n))
    [] n = "[]" -> ArrayExpression(i, <<>>)
    [] n = "[1]" -> ArrayExpression(i, <<Literal(i + 1, Prim("1"))>>)
    [] n = "x" -> Identifier(i, n)

BinaryTrees ==
  {BinaryExpression(1, o, ValueOperand(l, 2), ValueOperand(r, 4)) :
     o \in {"in", "instanceof", "+"}, l \in ValueNames, r \in ValueNames}

\* `statement`, one statement, numbered 1
Statement(expression) == Program(0, <<ExpressionStatement(1, expression)>>)

\* var name = init, numbered from i
Var(i, kind, name, init) ==
  VariableDeclaration(i, kind, <<VariableDeclarator(i + 1, Identifier(i + 2, name), init)>>)

\* 1 in 0; 1 instanceof null; z
ThrownTree ==
  Program(0, <<
    ExpressionStatement(1,
      BinaryExpression(2, "in", Literal(3, Prim("1")), Literal(4, Prim("0")))),
    ExpressionStatement(5,
      BinaryExpression(6, "instanceof", Literal(7, Prim("1")), Literal(8, JsNull))),
    ExpressionStatement(9, Identifier(10, "z"))>>)

\* var b; var a = b; a.p
AliasTree ==
  Program(0, <<
    Var(1, "var", "b", NoNode),
    Var(4, "var", "a", Identifier(7, "b")),
    ExpressionStatement(8,
      MemberExpression(9, Identifier(10, "a"), Identifier(11, "p")))>>)

\* obj && obj.nested && obj.nested.prop
NestedMemberTree ==
  LogicalExpression(1, "&&",
    LogicalExpression(2, "&&", Identifier(3, "obj"),
      MemberExpression(4, Identifier(5, "obj"), Identifier(6, "nested"))),
    MemberExpression(7,
      MemberExpression(8, Identifier(9, "obj"), Identifier(10, "nested")),
      Identifier(11, "prop")))

WriteNames == {"x = 's'", "x = 1", "x += 1", "x += 's'", "++x", "x--", "y = 0"}

\* a write to x, numbered from i
Write(n, i) ==
  CASE n = "x = 's'" ->
         AssignmentExpression(i, Identifier(i + 1, "x"), Literal(i + 2, Prim("'s'")))
    [] n = "x = 1" ->
         AssignmentExpression(i, Identifier(i + 1, "x"), Literal(i + 2, Prim("1")))
    [] n = "x += 1" ->
         CompoundAssignment(i, "+=", Identifier(i + 1, "x"), Literal(i + 2, Prim("1")))
    [] n = "x += 's'" ->
         CompoundAssignment(i, "+=", Identifier(i + 1, "x"), Literal(i + 2, Prim("'s'")))
    [] n = "++x" -> UpdateExpression(i, "++", TRUE, Identifier(i + 1, "x"))
    [] n = "x--" -> UpdateExpression(i, "--", FALSE, Identifier(i + 1, "x"))
    [] n = "y = 0" ->
         AssignmentExpression(i, Identifier(i + 1, "y"), Literal(i + 2, Prim("0")))

\* var x = 1; { write }; x || 0     (or let x = 1)
WriteTree(kind, n) ==
  Program(0, <<
    Var(1, kind, "x", Literal(4, Prim("1"))),
    BlockStatement(5, <<ExpressionStatement(6, Write(n, 7))>>),
    ExpressionStatement(10,
      LogicalExpression(11, "||", Identifier(12, "x"), Literal(13, Prim("0"))))>>)

WriteTrees == {WriteTree(k, n) : k \in {"var", "let"}, n \in WriteNames}

\* 's'.length, [1][0], [1]['length'], 's'[x], o.p = 1, o.p++, f(o.p, 1)
MemberTrees ==
  {Statement(MemberExpression(2, Literal(3, Prim("'s'")), Identifier(4, "length"))),
   Statement(ComputedMember(2, ArrayExpression(3, <<Literal(4, Prim("1"))>>),
                            Literal(5, Prim("0")))),
   Statement(ComputedMember(2, ArrayExpression(3, <<Literal(4, Prim("1"))>>),
                            Literal(5, Prim("'length'")))),
   Statement(ComputedMember(2, Literal(3, Prim("'s'")), Identifier(4, "x"))),
   Statement(AssignmentExpression(2,
               MemberExpression(3, Identifier(4, "o"), Identifier(5, "p")),
               Literal(6, Prim("1")))),
   Statement(UpdateExpression(2, "++", FALSE,
               MemberExpression(3, Identifier(4, "o"), Identifier(5, "p")))),
   Statement(CallExpression(2, Identifier(3, "f"),
               <<MemberExpression(4, Identifier(5, "o"), Identifier(6, "p")),
                 Literal(7, Prim("1"))>>))}

\* a += f(); const {a} = o; var [a] = o; var {a}; null.x; [][0].x;
\* with (o) {}; var v; var v
FailingTrees ==
  {Statement(CompoundAssignment(2, "+=", Identifier(3, "a"),
               CallExpression(4, Identifier(5, "f"), <<>>))),
   Program(0, <<VariableDeclaration(1, "const",
     <<VariableDeclarator(2,
         ObjectPattern(3, <<Property(4, Identifier(5, "a"), Identifier(6, "a"))>>),
         Identifier(7, "o"))>>)>>),
   Program(0, <<VariableDeclaration(1, "var",
     <<VariableDeclarator(2, ArrayPattern(3, <<NoNode, Identifier(4, "a")>>),
         Identifier(5, "o"))>>)>>),
   Program(0, <<VariableDeclaration(1, "var",
     <<VariableDeclarator(2,
         ObjectPattern(3, <<Property(4, Identifier(5, "a"), Identifier(6, "a"))>>),
         NoNode)>>)>>),
   Statement(MemberExpression(2, Literal(3, JsNull), Identifier(4, "x"))),
   Statement(MemberExpression(2,
               ComputedMember(3, ArrayExpression(4, <<>>), Literal(5, Prim("0"))),
               Identifier(6, "x"))),
   Program(0, <<WithStatement(1, Identifier(2, "o"), BlockStatement(3, <<>>))>>),
   Program(0, <<Var(1, "var", "v", NoNode), Var(4, "var", "v", NoNode)>>)}

AnalyzeTrees ==
  LogicalTrees \cup BindingTrees \cup BinaryTrees \cup WriteTrees \cup MemberTrees
    \cup FailingTrees \cup {ThrownTree, AliasTree, NestedMemberTree, JSXElement(1)}

Pending == [form |-> "pending"]

\* analyze(ast) with the default root scope new Scope(), or with a root
\* scope Scope.withMembers({}) of the caller
AnalyzeInit ==
  /\ aast \in AnalyzeTrees
  /\ ascopes \in {<<NewScope(0, TRUE, Map(NoProps))>>, <<withMembers(Map(NoProps))>>}
  /\ atrace = <<>>
  /\ aret = Pending
  /\ TypesIdle
  /\ FormatIdle
  /\ ScopeIdle
  /\ WalkIdle
  /\ FormatterIdle
  /\ RoundTripIdle

CallAnalyze ==
  /\ aret = Pending
  /\ LET r == analyze(aast, ascopes) IN
     /\ ascopes' = r.s.scopes
     /\ atrace' = r.s.trace
     /\ aret' = r.ret
  /\ UNCHANGED aast
  /\ UNCHANGED beyondAnalyze

AnalyzeNext == CallAnalyze

AnalyzeSpec == AnalyzeInit /\ [][AnalyzeNext]_vars

-----------------------------------------------------------------------------
(* Formatter *)

(***************************************************************************)
(* The token buffer of format.  A Formatter object is held as              *)
(*   [indentChar, indentMultiple, margin, indent, tokens, kinds,           *)
(*    written, thrown]                                                     *)
(* `tokens` and `kinds` being the arrays _tokens and _kinds, `written` the *)
(* arguments of the _write calls made so far, and `thrown` the exception   *)
(* the last call ended with ("" when it returned).  A written line is held *)
(* with the string handed to _write and, beside it, what the string was    *)
(* built from:                                                             *)
(*   [line, indent, tokens, kinds]                                         *)
(* An option that is not given is 0 or "", which are falsy as undefined.   *)
(***************************************************************************)

TokenKind == [Leading |-> 0, Normal |-> 1, Trailing |-> 2, Space |-> 3]

DefaultIndentMultiple == 2

DefaultMargin == 80

TabWidth == 8

\* new Formatter(options)
Formatter(options) ==
  [form |-> "formatter",
   indentChar |-> IF options.indentChar # "" THEN options.indentChar ELSE " ",
   indentMultiple |-> IF options.indentMultiple # 0 THEN options.indentMultiple
                      ELSE DefaultIndentMultiple,
   margin |-> IF options.margin # 0 THEN options.margin ELSE DefaultMargin,
   indent |-> 0,
   tokens |-> <<>>,
   kinds |-> <<>>,
   written |-> <<>>,
   thrown |-> ""]

\* this._tokens.push(token); this._kinds.push(kind)
pushToken(fmt, token, kind) ==
  [fmt EXCEPT !.tokens = Append(@, token), !.kinds = Append(@, kind), !.thrown = ""]

emitLeading(fmt, token) == pushToken(fmt, token, TokenKind.Leading)

emit(fmt, token) == pushToken(fmt, token, TokenKind.Normal)

emitTrailing(fmt, token) == pushToken(fmt, token, TokenKind.Trailing)

emitSpace(fmt, token) == pushToken(fmt, token, TokenKind.Space)

emitSemi(fmt) == emitTrailing(fmt, ";")

emitBinaryOp(fmt, token) == emitSpace(emitTrailing(emitSpace(fmt, " "), token), " ")

incIndent(fmt) == [fmt EXCEPT !.indent = @ + 1, !.thrown = ""]

decIndent(fmt) == [fmt EXCEPT !.indent = @ - 1, !.thrown = ""]

\* String.prototype.repeat for a count that is not negative
RECURSIVE Repeat(_, _)
Repeat(str, count) == IF count = 0 THEN "" ELSE str \o Repeat(str, count - 1)

\* line += this._tokens.shift(), for each of the tokens
RECURSIVE ConcatTokens(_)
ConcatTokens(tokens) ==
  IF tokens = <<>> THEN "" ELSE Head(tokens) \o ConcatTokens(Tail(tokens))

\* this._write(line) for the line made of the indent and of the first
\* `count` tokens of the buffer, which are shifted out of it
writeLine(fmt, indentCount, count) ==
  [fmt EXCEPT
     !.written = Append(@, [line |-> Repeat(fmt.indentChar, indentCount)
                                       \o ConcatTokens(SubSeq(fmt.tokens, 1, count))
                                       \o "\n",
                            indent |-> indentCount,
                            tokens |-> SubSeq(fmt.tokens, 1, count),
                            kinds |-> SubSeq(fmt.kinds, 1, count)]),
     !.tokens = SubSeq(@, count + 1, Len(@)),
     !.kinds = SubSeq(@, count + 1, Len(@))]

\* the buffer as it is, leading spaces kept
keepLeadingSpaces(fmt) == fmt

\* drop leading spaces
RECURSIVE dropLeadingSpaces(_)
dropLeadingSpaces(fmt) ==
  IF fmt.kinds # <<>> /\ Head(fmt.kinds) = TokenKind.Space
    THEN dropLeadingSpaces([fmt EXCEPT !.tokens = Tail(@), !.kinds = Tail(@)])
    ELSE fmt

\* always write first normal token and its trailing tokens: the first loop
\* of emitNewline; positions count from 0 as in the code
RECURSIVE firstNormal(_, _, _, _, _)
firstNormal(fmt, pos, col, gotNormal, lastNonspacePos) ==
  CASE pos >= Len(fmt.kinds) \/ (gotNormal /\ fmt.kinds[pos + 1] # TokenKind.Trailing) ->
         [pos |-> pos, col |-> col, lastNonspacePos |-> lastNonspacePos]
    [] OTHER ->
         firstNormal(fmt, pos + 1, col + Len(fmt.tokens[pos + 1]),
                     gotNormal \/ fmt.kinds[pos + 1] = TokenKind.Normal,
                     IF fmt.kinds[pos + 1] # TokenKind.Space THEN pos
                     ELSE lastNonspacePos)

\* find next normal token beyond margin: the second loop of emitNewline; col
\* is the column before the token at pos
RECURSIVE beyondMargin(_, _, _, _, _, _)
beyondMargin(fmt, pos, col, lastWritePos, lastNonspacePos, lastNormalOrTrailing) ==
  CASE pos >= Len(fmt.kinds)
       \/ (fmt.kinds[pos + 1] = TokenKind.Normal
           /\ col + Len(fmt.tokens[pos + 1]) > fmt.margin) ->
         [pos |-> pos, lastWritePos |-> lastWritePos,
          lastNonspacePos |-> lastNonspacePos]
    [] fmt.kinds[pos + 1] = TokenKind.Normal
       \/ (fmt.kinds[pos + 1] = TokenKind.Trailing /\ lastNormalOrTrailing) ->
         beyondMargin(fmt, pos + 1, col + Len(fmt.tokens[pos + 1]), pos, pos, TRUE)
    [] OTHER ->
         beyondMargin(fmt, pos + 1, col + Len(fmt.tokens[pos + 1]), lastWritePos,
                      IF fmt.kinds[pos + 1] # TokenKind.Space THEN pos
                      ELSE lastNonspacePos,
                      FALSE)

\* the second loop started where the first one ended
nextLine(fmt, first) ==
  beyondMargin(fmt, first.pos, first.col, first.lastNonspacePos,
               first.lastNonspacePos, FALSE)

RECURSIVE emitLines(_, _, _)

\* reached end of line: accept all but trailing spaces; the line is
\* written, and the loop goes on unless the end was reached
cutLine(fmt, indentCount, indentWidth, found) ==
  IF found.pos = Len(fmt.kinds)
    THEN writeLine(fmt, indentCount, found.lastNonspacePos + 1)
    ELSE emitLines(writeLine(fmt, indentCount, found.lastWritePos + 1),
                   indentCount, indentWidth)

\* one turn of the do loop on a buffer without leading spaces; repeat
\* throws a RangeError for a negative count
emitLine(fmt, indentCount, indentWidth) ==
  IF fmt.kinds = <<>>
    THEN [fmt EXCEPT !.written = Append(@, [line |-> "\n", indent |-> 0,
                                            tokens |-> <<>>, kinds |-> <<>>])]
  ELSE IF indentCount < 0 THEN [fmt EXCEPT !.thrown = "RangeError"]
  ELSE cutLine(fmt, indentCount, indentWidth,
               nextLine(fmt, firstNormal(fmt, 0, indentCount * indentWidth, FALSE, -1)))

emitLines(fmt, indentCount, indentWidth) ==
  emitLine(dropLeadingSpaces(fmt), indentCount, indentWidth)

emitNewline(fmt) ==
  emitLines([fmt EXCEPT !.thrown = ""],
            fmt.indent * fmt.indentMultiple,
            IF fmt.indentChar = "\t" THEN TabWidth ELSE Len(fmt.indentChar))

flush(fmt) ==
  IF Len(fmt.tokens) # 0 THEN emitNewline(fmt) ELSE [fmt EXCEPT !.thrown = ""]

-----------------------------------------------------------------------------
(* The Formatter calls *)

\* the tokens emitted before a line must be asked for, the lines written,
\* and the depth of the indent
MaxTokens == 3

MaxLines == 2

MaxIndent == 1

FormatterOptions ==
  {[margin |-> 2, indentChar |-> "", indentMultiple |-> 0],
   [margin |-> 0, indentChar |-> "\t", indentMultiple |-> 1]}

LeadingTokens == {"("}

NormalTokens == {"a", "bbbb"}

TrailingTokens == {";"}

SpaceTokens == {" "}

\* a token may be emitted
MayEmit == formatter.form = "formatter" /\ Len(femitted) < MaxTokens

FormatterInit ==
  /\ \E options \in FormatterOptions :
       formatter = Formatter(options)
  /\ femitted = <<>>
  /\ fcall = "new"
  /\ TypesIdle
  /\ FormatIdle
  /\ ScopeIdle
  /\ WalkIdle
  /\ AnalyzeIdle
  /\ RoundTripIdle

Emitted(token, kind) == Append(femitted, [token |-> token, kind |-> kind])

CallEmitLeading ==
  /\ MayEmit
  /\ \E token \in LeadingTokens :
       /\ formatter' = emitLeading(formatter, token)
       /\ femitted' = Emitted(token, TokenKind.Leading)
  /\ fcall' = "emitLeading"
  /\ UNCHANGED beyondFormatter

CallEmit ==
  /\ MayEmit
  /\ \E token \in NormalTokens :
       /\ formatter' = emit(formatter, token)
       /\ femitted' = Emitted(token, TokenKind.Normal)
  /\ fcall' = "emit"
  /\ UNCHANGED beyondFormatter

CallEmitTrailing ==
  /\ MayEmit
  /\ \E token \in TrailingTokens :
       /\ formatter' = emitTrailing(formatter, token)
       /\ femitted' = Emitted(token, TokenKind.Trailing)
  /\ fcall' = "emitTrailing"
  /\ UNCHANGED beyondFormatter

CallEmitSpace ==
  /\ MayEmit
  /\ \E token \in SpaceTokens :
       /\ formatter' = emitSpace(formatter, token)
       /\ femitted' = Emitted(token, TokenKind.Space)
  /\ fcall' = "emitSpace"
  /\ UNCHANGED beyondFormatter

CallIncIndent ==
  /\ formatter.form = "formatter" /\ formatter.indent < MaxIndent
  /\ formatter' = incIndent(formatter)
  /\ fcall' = "incIndent"
  /\ UNCHANGED <<femitted, beyondFormatter>>

CallDecIndent ==
  /\ formatter.form = "formatter" /\ formatter.indent >= 0
  /\ formatter' = decIndent(formatter)
  /\ fcall' = "decIndent"
  /\ UNCHANGED <<femitted, beyondFormatter>>

CallEmitNewline ==
  /\ formatter.form = "formatter" /\ Len(formatter.written) < MaxLines
  /\ formatter' = emitNewline(formatter)
  /\ fcall' = "emitNewline"
  /\ UNCHANGED <<femitted, beyondFormatter>>

CallFlush ==
  /\ formatter.form = "formatter" /\ Len(formatter.written) < MaxLines
  /\ formatter' = flush(formatter)
  /\ fcall' = "flush"
  /\ UNCHANGED <<femitted, beyondFormatter>>

FormatterNext ==
  \/ CallEmitLeading
  \/ CallEmit
  \/ CallEmitTrailing
  \/ CallEmitSpace
  \/ CallIncIndent
  \/ CallDecIndent
  \/ CallEmitNewline
  \/ CallFlush

FormatterSpec == FormatterInit /\ [][FormatterNext]_vars

-----------------------------------------------------------------------------
(* format *)

(***************************************************************************)
(* format(ast, options) of src/src/format.mjs walks the tree with Before   *)
(* hooks that emit tokens into a Formatter and return false, so that every *)
(* child is visited by the hook itself.  The state handed down is held as  *)
(*   [precedence, inList]                                                  *)
(* `precedence` being <<>> when the property is absent and <<p>> when it   *)
(* is p.  The property leadingExpression is read by objectVisitor for an   *)
(* ObjectExpression only; the trees formatted here hold object patterns    *)
(* but no object literals, and the property is left out.  The Formatter    *)
(* carries one more field for the properties, which the program does not   *)
(* hold: `guards`, the test node and the tokens pushed between the         *)
(* parentheses at each emitGuard call.                                     *)
(***************************************************************************)

Precedence ==
  [MemberCall |-> 1, NoArgNew |-> 2, Postfix |-> 3, Prefix |-> 4, Exponent |-> 5,
   Multiply |-> 6, Add |-> 7, Shift |-> 8, Compare |-> 9, Equal |-> 10,
   BitAnd |-> 11, BitXor |-> 12, BitOr |-> 13, LogicalAnd |-> 14, LogicalOr |-> 15,
   Conditional |-> 16, Assignment |-> 17, Yield |-> 18, Sequence |-> 19]

binaryOpPrecedence ==
  [operator \in {"**", "*", "/", "%", "+", "-", "<<", ">>", ">>>", "<", "<=", ">",
                 ">=", "in", "instanceof", "==", "!=", "===", "!==", "&", "^", "|",
                 "&&", "||", "=", "+=", "-=", "**=", "*=", "/=", "%=", "<<=",
                 ">>=", ">>>=", "&=", "^=", "|="} |->
     CASE operator = "**" -> Precedence.Exponent
       [] operator \in {"*", "/", "%"} -> Precedence.Multiply
       [] operator \in {"+", "-"} -> Precedence.Add
       [] operator \in {"<<", ">>", ">>>"} -> Precedence.Shift
       [] operator \in {"<", "<=", ">", ">=", "in", "instanceof"} -> Precedence.Compare
       [] operator \in {"==", "!=", "===", "!=="} -> Precedence.Equal
       [] operator = "&" -> Precedence.BitAnd
       [] operator = "^" -> Precedence.BitXor
       [] operator = "|" -> Precedence.BitOr
       [] operator = "&&" -> Precedence.LogicalAnd
       [] operator = "||" -> Precedence.LogicalOr
       [] OTHER -> Precedence.Assignment]

\* the state {} that format hands to walk
EmptyState == [precedence |-> <<>>, inList |-> FALSE]

\* { ...state, precedence }
withPrecedence(state, precedence) == [state EXCEPT !.precedence = <<precedence>>]

\* precedence > state.precedence, which is false when state.precedence is
\* undefined
needsParens(precedence, state) ==
  state.precedence # <<>> /\ precedence > state.precedence[1]

\* { ...state, precedence: Precedence.Sequence - 1, inList: true }
listState(state) ==
  [state EXCEPT !.precedence = <<Precedence.Sequence - 1>>, !.inList = TRUE]

isSameLineStatement(stmt) ==
  stmt.type \in {"BreakStatement", "ContinueStatement", "ReturnStatement",
                 "ThrowStatement"}

IfStatement(i, test, consequent, alternate) ==
  [type |-> "IfStatement", uid |-> i, test |-> test, consequent |-> consequent,
   alternate |-> alternate]

WhileStatement(i, test, body) ==
  [type |-> "WhileStatement", uid |-> i, test |-> test, body |-> body]

DoWhileStatement(i, body, test) ==
  [type |-> "DoWhileStatement", uid |-> i, body |-> body, test |-> test]

SwitchStatement(i, discriminant, cases) ==
  [type |-> "SwitchStatement", uid |-> i, discriminant |-> discriminant,
   cases |-> cases]

SwitchCase(i, test, consequent) ==
  [type |-> "SwitchCase", uid |-> i, test |-> test, consequent |-> consequent]

EmptyStatement(i) == [type |-> "EmptyStatement", uid |-> i]

SequenceExpression(i, expressions) ==
  [type |-> "SequenceExpression", uid |-> i, expressions |-> expressions]

\* a literal as the parser gives it, with the text it was read from
RawLiteral(i, raw) == [type |-> "Literal", uid |-> i, value |-> Prim(raw), raw |-> raw]

RECURSIVE formatVisit(_, _, _)

\* for (const node of nodes) visit(node, state), from the i-th node on
RECURSIVE formatEach(_, _, _, _)
formatEach(fmt, nodes, i, state) ==
  IF i > Len(nodes) THEN fmt
  ELSE formatEach(formatVisit(fmt, nodes[i], state), nodes, i + 1, state)

\* the tokens pushed since the parenthesis was opened are those of the test
guardTokens(opened, closed, node) ==
  [closed EXCEPT !.guards =
     Append(@, [test |-> node,
                tokens |-> SubSeq(closed.tokens, Len(opened.tokens) + 1,
                                  Len(closed.tokens))])]

guardVisited(opened, node, state) ==
  guardTokens(opened, formatVisit(opened, node, state), node)

emitGuard(fmt, token, node, state) ==
  emitTrailing(guardVisited(emitLeading(emitSpace(emit(fmt, token), " "), "("),
                            node, state), ")")

emitNested(fmt, node, state) ==
  IF node.type # "BlockStatement"
    THEN decIndent(formatVisit(incIndent(emitNewline(fmt)), node, state))
    ELSE formatVisit(emitSpace(fmt, " "), node, state)

\* the loop of emitList, from the i-th node on
RECURSIVE listItems(_, _, _, _)
listItems(fmt, nodes, i, state) ==
  IF i > Len(nodes) THEN fmt
  ELSE listItems(formatVisit(IF i > 1 THEN emitSpace(emitTrailing(fmt, ","), " ")
                                       ELSE fmt,
                             nodes[i], state),
                 nodes, i + 1, state)

emitList(fmt, nodes, state) == listItems(fmt, nodes, 1, listState(state))

\* objectVisitor for an ObjectPattern: needParens is false, for the node is
\* no ObjectExpression
objectVisitor(fmt, node, state) ==
  emitTrailing(IF Len(node.properties) > 0
                 THEN emitSpace(emitList(emitSpace(emitLeading(fmt, "{"), " "),
                                         node.properties, state), " ")
                 ELSE emitLeading(fmt, "{"),
               "}")

\* fmt.emitLeading('(') ... fmt.emitTrailing(')') if (needParens)
openParen(fmt, needParens) == IF needParens THEN emitLeading(fmt, "(") ELSE fmt

closeParen(fmt, needParens) == IF needParens THEN emitTrailing(fmt, ")") ELSE fmt

\* every operator taken as left-associative
isNeverRightAssoc(precedence) == FALSE

isRightAssoc(precedence) ==
  precedence = Precedence.Exponent \/ precedence = Precedence.Assignment

binaryNeedParens(node, state) ==
  \/ needsParens(binaryOpPrecedence[node.operator], state)
  \/ node.left.type = "ObjectPattern"

\* the operands of binaryVisitor with the operator between them
binaryOperands(fmt, node, state, precedence, rightAssoc) ==
  formatVisit(
    emitBinaryOp(
      formatVisit(fmt, node.left,
                  withPrecedence(state, precedence - (IF rightAssoc THEN 1 ELSE 0))),
      node.operator),
    node.right,
    withPrecedence(state, precedence - (IF rightAssoc THEN 0 ELSE 1)))

binaryVisitor(fmt, node, state) ==
  closeParen(
    binaryOperands(openParen(fmt, binaryNeedParens(node, state)), node, state,
                   binaryOpPrecedence[node.operator],
                   isRightAssoc(binaryOpPrecedence[node.operator])),
    binaryNeedParens(node, state))

\* VariableDeclarationBefore: the loop over the declarations
RECURSIVE declarators(_, _, _, _)
declarators(fmt, declarations, i, state) ==
  IF i > Len(declarations) THEN fmt
  ELSE declarators(
         IF declarations[i].init # NoNode
           THEN formatVisit(
                  emitBinaryOp(
                    formatVisit(IF i > 1 THEN emitSpace(emitTrailing(fmt, ","), " ")
                                         ELSE fmt,
                                declarations[i].id, state),
                    "="),
                  declarations[i].init, state)
           ELSE formatVisit(IF i > 1 THEN emitSpace(emitTrailing(fmt, ","), " ")
                                     ELSE fmt,
                            declarations[i].id, state),
         declarations, i + 1, state)

VariableDeclarationBefore(fmt, node, state) ==
  emitNewline(emitSemi(
    declarators(emitSpace(emitLeading(fmt, node.kind), " "), node.declarations, 1,
                listState(state))))

\* FunctionBefore for a function expression that is neither async nor a
\* generator
FunctionBefore(fmt, node, state) ==
  formatVisit(
    emitSpace(
      emitTrailing(
        emitList(
          emitTrailing(
            IF node.id # NoNode
              THEN formatVisit(emitSpace(emitLeading(fmt, "function"), " "),
                               node.id, state)
              ELSE emitLeading(fmt, "function"),
            "("),
          node.params, state),
        ")"),
      " "),
    node.body, state)

ExpressionStatementBefore(fmt, node, state) ==
  emitNewline(emitSemi(formatVisit(fmt, node.expression, state)))

BlockStatementBefore(fmt, node, state) ==
  IF state.inList
    THEN emitTrailing(
           IF Len(node.body) > 0
             THEN decIndent(formatEach(incIndent(emitNewline(emitTrailing(fmt, "{"))),
                                       node.body, 1, state))
             ELSE emitTrailing(fmt, "{"),
           "}")
    ELSE emitNewline(emitTrailing(
           IF Len(node.body) > 0
             THEN decIndent(formatEach(incIndent(emitNewline(emitTrailing(fmt, "{"))),
                                       node.body, 1, state))
             ELSE emitTrailing(fmt, "{"),
           "}"))

WithStatementBefore(fmt, node, state) ==
  formatVisit(emitSpace(emitGuard(fmt, "with", node.object, state), " "),
              node.body, state)

\* the else branch of IfStatementBefore
ifAlternate(fmt, node, state) ==
  IF node.alternate = NoNode THEN fmt
  ELSE IF node.alternate.type = "IfStatement"
    THEN formatVisit(emitSpace(emit(fmt, "else"), " "), node.alternate, state)
  ELSE emitNested(emit(fmt, "else"), node.alternate, state)

IfStatementBefore(fmt, node, state) ==
  ifAlternate(
    IF node.alternate = NoNode /\ isSameLineStatement(node.consequent)
      THEN formatVisit(emitSpace(emitGuard(fmt, "if", node.test, state), " "),
                       node.consequent, state)
      ELSE emitNested(emitGuard(fmt, "if", node.test, state), node.consequent, state),
    node, state)

SwitchStatementBefore(fmt, node, state) ==
  emitNewline(emitTrailing(
    decIndent(
      formatEach(
        incIndent(emitNewline(emitTrailing(
          emitSpace(emitGuard(fmt, "switch", node.discriminant, state), " "), "{"))),
        node.cases, 1, state)),
    "}"))

\* the statements of a case, after the colon
caseConsequent(fmt, node, state) ==
  IF Len(node.consequent) = 1 /\ node.consequent[1].type = "BlockStatement"
    THEN formatVisit(emitSpace(fmt, " "), node.consequent[1], state)
    ELSE decIndent(formatEach(incIndent(emitNewline(fmt)), node.consequent, 1, state))

SwitchCaseBefore(fmt, node, state) ==
  caseConsequent(
    emitTrailing(
      IF node.test # NoNode
        THEN formatVisit(emitSpace(emit(fmt, "case"), " "), node.test, state)
        ELSE emit(fmt, "default"),
      ":"),
    node, state)

WhileStatementBefore(fmt, node, state) ==
  emitNested(emitGuard(fmt, "while", node.test, state), node.body, state)

DoWhileStatementBefore(fmt, node, state) ==
  emitNewline(emitSemi(
    emitGuard(emitNested(emit(fmt, "do"), node.body, state), "while", node.test,
              state)))

\* if (part) visit(part, state)
visitIfPresent(fmt, part, state) ==
  IF part # NoNode THEN formatVisit(fmt, part, state) ELSE fmt

\* ForStatementBefore for a loop that is not `for await`
ForStatementBefore(fmt, node, state) ==
  emitNested(
    emitTrailing(
      visitIfPresent(
        emitSpace(emitSemi(
          visitIfPresent(
            emitSpace(emitSemi(
              visitIfPresent(emitLeading(emitSpace(emit(fmt, "for"), " "), "("),
                             node.init, state)), " "),
            node.test, state)), " "),
        node.update, state),
      ")"),
    node.body, state)

\* the three operands of ConditionalExpressionBefore
conditionalOperands(fmt, node, state, precedence) ==
  formatVisit(
    emitBinaryOp(
      formatVisit(
        emitBinaryOp(
          formatVisit(fmt, node.test, withPrecedence(state, precedence - 1)),
          "?"),
        node.consequent, withPrecedence(state, precedence)),
      ":"),
    node.alternate, withPrecedence(state, precedence))

ConditionalExpressionBefore(fmt, node, state) ==
  closeParen(
    conditionalOperands(openParen(fmt, needsParens(Precedence.Conditional, state)),
                        node, state, Precedence.Conditional),
    needsParens(Precedence.Conditional, state))

CallExpressionBefore(fmt, node, state) ==
  emitTrailing(
    emitList(
      emitTrailing(
        formatVisit(fmt, node.callee, withPrecedence(state, Precedence.MemberCall)),
        "("),
      node.arguments, state),
    ")")

SequenceExpressionBefore(fmt, node, state) ==
  closeParen(
    emitList(openParen(fmt, needsParens(Precedence.Sequence, state)),
             node.expressions, state),
    needsParens(Precedence.Sequence, state))

\* walk's visit with the hooks of format: a node type with a Before hook is
\* formatted by the hook, which returns false; Identifier, Literal and
\* EmptyStatement have an after hook and no child; a Program has no hook and
\* its body is visited by the walker.  An exception of emitNewline ends the
\* whole call; it is thrown for a negative indent only, which no hook of
\* format reaches, every decIndent following an incIndent
formatVisit(fmt, node, state) ==
  CASE fmt.thrown # "" -> fmt
    [] node.type = "Program" -> formatEach(fmt, node.body, 1, state)
    [] node.type = "VariableDeclaration" -> VariableDeclarationBefore(fmt, node, state)
    [] node.type = "FunctionExpression" -> FunctionBefore(fmt, node, state)
    [] node.type = "EmptyStatement" -> emitNewline(emitSemi(fmt))
    [] node.type = "ExpressionStatement" -> ExpressionStatementBefore(fmt, node, state)
    [] node.type = "BlockStatement" -> BlockStatementBefore(fmt, node, state)
    [] node.type = "WithStatement" -> WithStatementBefore(fmt, node, state)
    [] node.type = "IfStatement" -> IfStatementBefore(fmt, node, state)
    [] node.type = "SwitchStatement" -> SwitchStatementBefore(fmt, node, state)
    [] node.type = "SwitchCase" -> SwitchCaseBefore(fmt, node, state)
    [] node.type = "WhileStatement" -> WhileStatementBefore(fmt, node, state)
    [] node.type = "DoWhileStatement" -> DoWhileStatementBefore(fmt, node, state)
    [] node.type = "ForStatement" -> ForStatementBefore(fmt, node, state)
    [] node.type \in {"BinaryExpression", "LogicalExpression",
                      "AssignmentExpression"} -> binaryVisitor(fmt, node, state)
    [] node.type = "ConditionalExpression" ->
         ConditionalExpressionBefore(fmt, node, state)
    [] node.type = "CallExpression" -> CallExpressionBefore(fmt, node, state)
    [] node.type = "SequenceExpression" -> SequenceExpressionBefore(fmt, node, state)
    [] node.type = "ObjectPattern" -> objectVisitor(fmt, node, state)
    [] node.type = "Identifier" -> emit(fmt, node.name)
    [] node.type = "Literal" -> emit(fmt, node.raw)

\* what the write callback of the test has gathered: output += s
RECURSIVE Output(_)
Output(written) ==
  IF written = <<>> THEN "" ELSE Head(written).line \o Output(Tail(written))

\* format(ast, options): the Formatter after fmt.flush()
format(ast, options) ==
  flush(formatVisit([guards |-> <<>>] @@ Formatter(options), ast, EmptyState))

-----------------------------------------------------------------------------
(* acorn.parse *)

(***************************************************************************)
(* The test of format reads its input with acorn.parse, which is no part   *)
(* of the repository.  It is modelled for a subset of the ECMAScript       *)
(* grammar: a scanner that cuts the text into tokens by the longest        *)
(* match, and an operator-precedence parser that gives the ESTree nodes    *)
(* (numbered 0, for a position plays no part in format) or fails with a    *)
(* SyntaxError.  The subset: var declarations, blocks, if, while,          *)
(* do-while, with, switch, for and empty statements, expression statements *)
(* ending in a semicolon; identifiers, numbers, parentheses, function      *)
(* expressions, calls, the binary and logical operators, the conditional   *)
(* operator, assignments to an identifier or to the pattern {}, and the    *)
(* comma operator.  A result of the parser is held as [ok, node, rest]:    *)
(* whether the phrase was read, the node (or the nodes, for a list), and   *)
(* the tokens that follow it.                                              *)
(***************************************************************************)

Letters ==
  {"a", "b", "c", "d", "e", "f", "g", "h", "i", "j", "k", "l", "m", "n", "o",
   "p", "q", "r", "s", "t", "u", "v", "w", "x", "y", "z"}

Digits == {"0", "1", "2", "3", "4", "5", "6", "7", "8", "9"}

WordChars == Letters \cup Digits

Blanks == {" ", "\n", "\t"}

Punctuators ==
  {"(", ")", "{", "}", ";", ",", "?", ":", "=", "+=", "*=", "**", "*", "+", "-",
   "<", "<=", "==", "===", "&", "|", "^", "&&", "||", "<<"}

Keywords ==
  {"var", "if", "else", "while", "do", "for", "with", "switch", "case", "default",
   "function", "return", "in", "instanceof", "new", "typeof", "void", "delete",
   "this", "break", "continue", "throw", "try", "catch", "finally"}

CharAt(str, pos) == SubSeq(str, pos, pos)

\* a word begins at pos
IsWordStart(str, pos) ==
  CharAt(str, pos) \in WordChars /\ (pos = 1 \/ CharAt(str, pos - 1) \notin WordChars)

\* the position of the last character of the word that begins at pos
wordEnd(str, pos) ==
  CHOOSE q \in pos..Len(str) :
    /\ \A k \in pos..q : CharAt(str, k) \in WordChars
    /\ q = Len(str) \/ CharAt(str, q + 1) \notin WordChars

\* the character at pos is neither blank nor part of a word
IsMark(str, pos) == CharAt(str, pos) \notin WordChars \cup Blanks

\* the length of the longest punctuator that begins at pos; a character
\* that begins none is a token of its own, which no phrase accepts
punctuatorLength(str, pos) ==
  CASE pos + 2 <= Len(str) /\ SubSeq(str, pos, pos + 2) \in Punctuators -> 3
    [] pos + 1 <= Len(str) /\ SubSeq(str, pos, pos + 1) \in Punctuators -> 2
    [] OTHER -> 1

\* the positions at which the punctuators of a run of marks begin, the
\* first one at pos
RECURSIVE punctuatorStarts(_, _)
punctuatorStarts(str, pos) ==
  CASE pos > Len(str) -> {}
    [] ~IsMark(str, pos) -> {}
    [] OTHER -> {pos} \cup punctuatorStarts(str, pos + punctuatorLength(str, pos))

\* the positions at which the tokens begin
tokenStarts(str) ==
  {p \in 1..Len(str) : IsWordStart(str, p)}
  \cup UNION {punctuatorStarts(str, p) :
                p \in {q \in 1..Len(str) :
                         IsMark(str, q) /\ (q = 1 \/ ~IsMark(str, q - 1))}}

tokenAt(str, pos) ==
  IF IsMark(str, pos) THEN SubSeq(str, pos, pos + punctuatorLength(str, pos) - 1)
  ELSE SubSeq(str, pos, wordEnd(str, pos))

\* the elements of a set of numbers in ascending order
Ascending(S) ==
  [i \in 1..Cardinality(S) |-> CHOOSE p \in S : Cardinality({q \in S : q < p}) = i - 1]

tokensFrom(str, starts) == [i \in DOMAIN starts |-> tokenAt(str, starts[i])]

tokenize(str) == tokensFrom(str, Ascending(tokenStarts(str)))

IsNumeral(token) == CharAt(token, 1) \in Digits

IsName(token) == CharAt(token, 1) \in Letters /\ token \notin Keywords

SyntaxError == [ok |-> FALSE, node |-> NoNode, rest |-> <<>>]

Parsed(node, rest) == [ok |-> TRUE, node |-> node, rest |-> rest]

Peek(tokens) == IF tokens = <<>> THEN "<eof>" ELSE Head(tokens)

\* the phrase read must be followed by the token, which is consumed
Expect(r, token) ==
  IF r.ok /\ Peek(r.rest) = token THEN Parsed(r.node, Tail(r.rest)) ELSE SyntaxError

\* the binding power of the operators read, as in the grammar: the higher,
\* the tighter
Power == [Comma |-> 1, Assignment |-> 2, Conditional |-> 3]

BindingPower ==
  [operator \in {"||", "&&", "|", "^", "&", "==", "===", "<", "<=", "<<", "+",
                 "-", "*", "**"} |->
     CASE operator = "||" -> 4
       [] operator = "&&" -> 5
       [] operator = "|" -> 6
       [] operator = "^" -> 7
       [] operator = "&" -> 8
       [] operator \in {"==", "==="} -> 9
       [] operator \in {"<", "<="} -> 10
       [] operator = "<<" -> 11
       [] operator \in {"+", "-"} -> 12
       [] operator = "*" -> 13
       [] operator = "**" -> 14]

AssignmentOperators == {"=", "+=", "*="}

RECURSIVE parseExpression(_, _)
RECURSIVE parseStatement(_)

\* first [, next]* : the phrases read between commas, the comma being no
\* operator in them
RECURSIVE parseMore(_, _)
parseMore(r, nodes) ==
  CASE ~r.ok -> SyntaxError
    [] Peek(r.rest) = "," ->
         parseMore(parseExpression(Tail(r.rest), Power.Assignment),
                   Append(nodes, r.node))
    [] OTHER -> Parsed(Append(nodes, r.node), r.rest)

\* the statements up to a closing brace, a case or the end of the text
RECURSIVE parseStatementList(_, _)
parseStatementNext(r, nodes) ==
  IF r.ok THEN parseStatementList(r.rest, Append(nodes, r.node)) ELSE SyntaxError

parseStatementList(tokens, nodes) ==
  IF Peek(tokens) \in {"}", "case", "default", "<eof>"} THEN Parsed(nodes, tokens)
  ELSE parseStatementNext(parseStatement(tokens), nodes)

parseBlock(tokens) ==
  IF Peek(tokens) = "{" THEN Expect(parseStatementList(Tail(tokens), <<>>), "}")
  ELSE SyntaxError

\* the names of the parameters, up to the closing parenthesis
RECURSIVE parseParams(_, _)
parseParams(tokens, nodes) ==
  CASE Peek(tokens) = ")" /\ nodes = <<>> -> Parsed(nodes, Tail(tokens))
    [] ~IsName(Peek(tokens)) -> SyntaxError
    [] Peek(Tail(tokens)) = "," ->
         parseParams(Tail(Tail(tokens)), Append(nodes, Identifier(0, Head(tokens))))
    [] Peek(Tail(tokens)) = ")" ->
         Parsed(Append(nodes, Identifier(0, Head(tokens))), Tail(Tail(tokens)))
    [] OTHER -> SyntaxError

functionBody(id, params, body) ==
  IF body.ok
    THEN Parsed(FunctionExpression(0, id, params, BlockStatement(0, body.node)),
                body.rest)
    ELSE SyntaxError

functionParams(id, params) ==
  IF params.ok THEN functionBody(id, params.node, parseBlock(params.rest))
  ELSE SyntaxError

\* function [name] (params) { body }, the keyword being read
parseFunction(tokens) ==
  CASE IsName(Peek(tokens)) /\ Peek(Tail(tokens)) = "(" ->
         functionParams(Identifier(0, Head(tokens)),
                        parseParams(Tail(Tail(tokens)), <<>>))
    [] Peek(tokens) = "(" -> functionParams(NoNode, parseParams(Tail(tokens), <<>>))
    [] OTHER -> SyntaxError

\* what an expression begins with; {} is read as a pattern, which an = must
\* follow, an object literal being outside the subset
parsePrimary(tokens) ==
  CASE Peek(tokens) = "(" -> Expect(parseExpression(Tail(tokens), Power.Comma), ")")
    [] Peek(tokens) = "function" -> parseFunction(Tail(tokens))
    [] Peek(tokens) = "{" ->
         IF Len(tokens) >= 3 /\ tokens[2] = "}" /\ tokens[3] = "="
           THEN Parsed(ObjectPattern(0, <<>>), Tail(Tail(tokens)))
           ELSE SyntaxError
    [] IsNumeral(Peek(tokens)) -> Parsed(RawLiteral(0, Head(tokens)), Tail(tokens))
    [] IsName(Peek(tokens)) -> Parsed(Identifier(0, Head(tokens)), Tail(tokens))
    [] OTHER -> SyntaxError

\* the arguments of a call, the opening parenthesis being read
parseArguments(tokens) ==
  IF Peek(tokens) = ")" THEN Parsed(<<>>, Tail(tokens))
  ELSE Expect(parseMore(parseExpression(tokens, Power.Assignment), <<>>), ")")

callDone(callee, arguments) ==
  IF arguments.ok
    THEN Parsed(CallExpression(0, callee, arguments.node), arguments.rest)
    ELSE SyntaxError

binaryDone(left, operator, right) ==
  IF right.ok
    THEN Parsed(IF operator \in {"||", "&&"}
                  THEN LogicalExpression(0, operator, left, right.node)
                  ELSE BinaryExpression(0, operator, left, right.node),
                right.rest)
    ELSE SyntaxError

conditionalDone(test, consequent, alternate) ==
  IF alternate.ok
    THEN Parsed(ConditionalExpression(0, test, consequent, alternate.node),
                alternate.rest)
    ELSE SyntaxError

conditionalAlternate(test, consequent) ==
  IF consequent.ok
    THEN conditionalDone(test, consequent.node,
                         parseExpression(consequent.rest, Power.Assignment))
    ELSE SyntaxError

\* the target of an assignment is an identifier or a pattern
assignDone(left, operator, right) ==
  IF right.ok /\ left.type \in {"Identifier", "ObjectPattern"}
             /\ (left.type = "ObjectPattern" => operator = "=")
    THEN Parsed([type |-> "AssignmentExpression", uid |-> 0, operator |-> operator,
                 left |-> left, right |-> right.node], right.rest)
    ELSE SyntaxError

sequenceDone(first, others) ==
  IF others.ok THEN Parsed(SequenceExpression(0, <<first>> \o others.node), others.rest)
  ELSE SyntaxError

\* left followed by the operators that bind at least as tightly as
\* minPower: a call; a binary operator, whose right operand binds more
\* tightly, or as tightly for **; the conditional operator, whose branches
\* are assignment expressions; an assignment, whose value is an assignment
\* expression; the comma operator
RECURSIVE parseInfix(_, _)
parseInfix(left, minPower) ==
  CASE ~left.ok -> SyntaxError
    [] left.node.type = "ObjectPattern" /\ Peek(left.rest) # "=" -> SyntaxError
    [] Peek(left.rest) = "(" ->
         parseInfix(callDone(left.node, parseArguments(Tail(left.rest))), minPower)
    [] Peek(left.rest) \in DOMAIN BindingPower
       /\ BindingPower[Peek(left.rest)] >= minPower ->
         parseInfix(
           binaryDone(left.node, Head(left.rest),
                      parseExpression(Tail(left.rest),
                                      IF Head(left.rest) = "**"
                                        THEN BindingPower[Head(left.rest)]
                                        ELSE BindingPower[Head(left.rest)] + 1)),
           minPower)
    [] Peek(left.rest) = "?" /\ Power.Conditional >= minPower ->
         parseInfix(
           conditionalAlternate(
             left.node,
             Expect(parseExpression(Tail(left.rest), Power.Assignment), ":")),
           minPower)
    [] Peek(left.rest) \in AssignmentOperators /\ Power.Assignment >= minPower ->
         parseInfix(
           assignDone(left.node, Head(left.rest),
                      parseExpression(Tail(left.rest), Power.Assignment)),
           minPower)
    [] Peek(left.rest) = "," /\ Power.Comma >= minPower ->
         sequenceDone(left.node,
                      parseMore(parseExpression(Tail(left.rest), Power.Assignment),
                                <<>>))
    [] OTHER -> left

parseExpression(tokens, minPower) == parseInfix(parsePrimary(tokens), minPower)

\* ( expression ) after the keyword of a statement
parseGuard(tokens) ==
  IF Peek(tokens) = "(" THEN Expect(parseExpression(Tail(tokens), Power.Comma), ")")
  ELSE SyntaxError

\* name [= value] [, name [= value]]*, the keyword var being read
RECURSIVE parseDeclarators(_, _)
declaratorNext(nodes, id, init) ==
  CASE ~init.ok -> SyntaxError
    [] Peek(init.rest) = "," ->
         parseDeclarators(Tail(init.rest),
                          Append(nodes, VariableDeclarator(0, id, init.node)))
    [] OTHER ->
         Parsed(VariableDeclaration(0, "var",
                  Append(nodes, VariableDeclarator(0, id, init.node))),
                init.rest)

parseDeclarators(tokens, nodes) ==
  CASE ~IsName(Peek(tokens)) -> SyntaxError
    [] Peek(Tail(tokens)) = "=" ->
         declaratorNext(nodes, Identifier(0, Head(tokens)),
                        parseExpression(Tail(Tail(tokens)), Power.Assignment))
    [] OTHER ->
         declaratorNext(nodes, Identifier(0, Head(tokens)),
                        Parsed(NoNode, Tail(tokens)))

ifDone(test, consequent, alternate) ==
  IF alternate.ok
    THEN Parsed(IfStatement(0, test, consequent, alternate.node), alternate.rest)
    ELSE SyntaxError

ifElse(test, consequent) ==
  CASE ~consequent.ok -> SyntaxError
    [] Peek(consequent.rest) = "else" ->
         ifDone(test, consequent.node, parseStatement(Tail(consequent.rest)))
    [] OTHER -> Parsed(IfStatement(0, test, consequent.node, NoNode), consequent.rest)

ifBody(test) ==
  IF test.ok THEN ifElse(test.node, parseStatement(test.rest)) ELSE SyntaxError

whileDone(test, body) ==
  IF body.ok THEN Parsed(WhileStatement(0, test, body.node), body.rest)
  ELSE SyntaxError

whileBody(test) ==
  IF test.ok THEN whileDone(test.node, parseStatement(test.rest)) ELSE SyntaxError

withDone(object, body) ==
  IF body.ok THEN Parsed(WithStatement(0, object, body.node), body.rest)
  ELSE SyntaxError

withBody(object) ==
  IF object.ok THEN withDone(object.node, parseStatement(object.rest))
  ELSE SyntaxError

\* the semicolon after do ... while (test) may be left out
doDone(body, test) ==
  IF ~test.ok THEN SyntaxError
  ELSE Parsed(DoWhileStatement(0, body, test.node),
              IF Peek(test.rest) = ";" THEN Tail(test.rest) ELSE test.rest)

doBody(body) ==
  IF body.ok /\ Peek(body.rest) = "while"
    THEN doDone(body.node, parseGuard(Tail(body.rest)))
    ELSE SyntaxError

\* case test: statements, or default: statements, up to the closing brace
RECURSIVE parseCases(_, _)
caseDone(nodes, test, consequent) ==
  IF consequent.ok
    THEN parseCases(consequent.rest,
                    Append(nodes, SwitchCase(0, test, consequent.node)))
    ELSE SyntaxError

caseTest(nodes, test) ==
  IF test.ok THEN caseDone(nodes, test.node, parseStatementList(test.rest, <<>>))
  ELSE SyntaxError

parseCases(tokens, nodes) ==
  CASE Peek(tokens) = "case" ->
         caseTest(nodes, Expect(parseExpression(Tail(tokens), Power.Comma), ":"))
    [] Peek(tokens) = "default" ->
         caseTest(nodes, Expect(Parsed(NoNode, Tail(tokens)), ":"))
    [] OTHER -> Parsed(nodes, tokens)

switchDone(discriminant, cases) ==
  IF cases.ok THEN Parsed(SwitchStatement(0, discriminant, cases.node), cases.rest)
  ELSE SyntaxError

switchBody(discriminant) ==
  IF discriminant.ok /\ Peek(discriminant.rest) = "{"
    THEN switchDone(discriminant.node,
                    Expect(parseCases(Tail(discriminant.rest), <<>>), "}"))
    ELSE SyntaxError

\* an expression that may be left out before the closing token
parseOptional(tokens, closing) ==
  IF Peek(tokens) = closing THEN Parsed(NoNode, Tail(tokens))
  ELSE Expect(parseExpression(tokens, Power.Comma), closing)

forDone(init, test, update, body) ==
  IF body.ok THEN Parsed(ForStatement(0, init, test, update, body.node), body.rest)
  ELSE SyntaxError

forUpdate(init, test, update) ==
  IF update.ok THEN forDone(init, test, update.node, parseStatement(update.rest))
  ELSE SyntaxError

forTest(init, test) ==
  IF test.ok THEN forUpdate(init, test.node, parseOptional(test.rest, ")"))
  ELSE SyntaxError

forInit(init) ==
  IF init.ok THEN forTest(init.node, parseOptional(init.rest, ";")) ELSE SyntaxError

\* for ( [var declarations | expression] ; [test] ; [update] ) body
parseFor(tokens) ==
  CASE Peek(tokens) # "(" -> SyntaxError
    [] Peek(Tail(tokens)) = "var" ->
         forInit(Expect(parseDeclarators(Tail(Tail(tokens)), <<>>), ";"))
    [] OTHER -> forInit(parseOptional(Tail(tokens), ";"))

blockDone(body) ==
  IF body.ok THEN Parsed(BlockStatement(0, body.node), body.rest) ELSE SyntaxError

expressionDone(r) ==
  IF r.ok THEN Parsed(ExpressionStatement(0, r.node), r.rest) ELSE SyntaxError

\* a statement that begins with `function` would be a declaration, which is
\* outside the subset
parseStatement(tokens) ==
  CASE Peek(tokens) = "{" -> blockDone(parseBlock(tokens))
    [] Peek(tokens) = "var" ->
         Expect(parseDeclarators(Tail(tokens), <<>>), ";")
    [] Peek(tokens) = "if" -> ifBody(parseGuard(Tail(tokens)))
    [] Peek(tokens) = "while" -> whileBody(parseGuard(Tail(tokens)))
    [] Peek(tokens) = "with" -> withBody(parseGuard(Tail(tokens)))
    [] Peek(tokens) = "do" -> doBody(parseStatement(Tail(tokens)))
    [] Peek(tokens) = "switch" -> switchBody(parseGuard(Tail(tokens)))
    [] Peek(tokens) = "for" -> parseFor(Tail(tokens))
    [] Peek(tokens) = ";" -> Parsed(EmptyStatement(0), Tail(tokens))
    [] Peek(tokens) = "function" -> SyntaxError
    [] OTHER -> expressionDone(Expect(parseExpression(tokens, Power.Comma), ";"))

\* acorn.parse(input): the Program, or the SyntaxError thrown
programDone(r) ==
  IF r.ok /\ r.rest = <<>> THEN Program(0, r.node) ELSE [type |-> "SyntaxError"]

parse(input) == programDone(parseStatementList(tokenize(input), <<>>))

-----------------------------------------------------------------------------
(* The round trip of the format test *)

(***************************************************************************)
(* The test of format parses a source text, formats the tree, and compares *)
(* the output with the text.  Here the output is parsed and formatted once *)
(* more.  The sources are statements of the subset, the first line of the  *)
(* test's input among them, and expression statements built from every     *)
(* pair of operands and every operator below.                              *)
(***************************************************************************)

\* the number of times a text is formatted
MaxFormats == 2

\* format(ast, { write })
WriteOnly == [margin |-> 0, indentChar |-> "", indentMultiple |-> 0]

StatementSources ==
  {"var x = 3 * (1 + 2) + 1 ? 2 : 3;",
   "var p = (1, 2);",
   "var a = 1, b;",
   "f(3);",
   "f(a, (b, c))(d);",
   ";",
   "{ a; { b; } }",
   "if (a) b; else c;",
   "if (a) { b; } else if (c) d;",
   "if (a, b) c = d;",
   "while (a < b) a += 1;",
   "while (a = b) { c; }",
   "do a += 1; while (a < b);",
   "do { a; } while (a ? b : c);",
   "with (a) b;",
   "with (a, b) { c; }",
   "switch (a + b) {}",
   "switch (a) { case 1: b; default: { c; } }",
   "for (;;) ;",
   "for (i = 0; i < n; i += 1) f(i);",
   "for (var i = 0; i < n; i += 1) {}",
   "for (var i = 0;;) f(i);",
   "x = function () {};",
   "x = function g(a, b) { a; };",
   "var f = function () { if (a + b) c; };",
   "var f = function () { if (a, b) c; };",
   "f(function () { while (a, b) c; });",
   "a + function () { if (b + c) d; };",
   "a || function () { do b; while (c || d); };",
   "a * function () { switch (b + c) {} };",
   "a < function () { with (b < c) d; };"}

OperandSources ==
  {"a", "(a + b)", "(a * b)", "(a ** b)", "(a < b)", "(a || b)", "(a && b)",
   "(a = b)", "(a ? b : c)", "(a, b)", "({} = b)"}

OperatorSources == {"**", "*", "+", "<", "&&", "||"}

ExpressionSources ==
  {l \o " " \o o \o " " \o r \o ";" :
     l \in OperandSources, o \in OperatorSources, r \in OperandSources}
  \cup {"x " \o o \o " " \o r \o ";" :
          o \in AssignmentOperators, r \in OperandSources}

Sources == StatementSources \cup ExpressionSources

RoundTripInit ==
  /\ rsrc \in Sources
  /\ rast = NoNode
  /\ rout = <<>>
  /\ rguards = <<>>
  /\ rstep = "source"
  /\ TypesIdle
  /\ FormatIdle
  /\ ScopeIdle
  /\ WalkIdle
  /\ AnalyzeIdle
  /\ FormatterIdle

\* acorn.parse of the source, or of what format has written last
CallParse ==
  /\ rstep \in {"source", "formatted"}
  /\ Len(rout) < MaxFormats
  /\ rast' = parse(IF rout = <<>> THEN rsrc ELSE rout[Len(rout)])
  /\ rstep' = "parsed"
  /\ UNCHANGED <<rsrc, rout, rguards, beyondRoundTrip>>

\* format(ast, { write }) with write gathering the output
Formatted(fmt) ==
  /\ rout' = Append(rout, Output(fmt.written))
  /\ rguards' = fmt.guards

CallFormat ==
  /\ rstep = "parsed"
  /\ rast.type = "Program"
  /\ Formatted(format(rast, WriteOnly))
  /\ rstep' = "formatted"
  /\ UNCHANGED <<rsrc, rast, beyondRoundTrip>>

RoundTripNext ==
  \/ CallParse
  \/ CallFormat

RoundTripSpec == RoundTripInit /\ [][RoundTripNext]_vars

-----------------------------------------------------------------------------
(* Properties of the type lattice *)

NonUnion(t) == Truthy(t) /\ ~isUnion(t)

\* union(x, y) reaches the pairwise merge of two unions
MergeCase(x, y) ==
  /\ Truthy(x) /\ Truthy(y)
  /\ ~isAssignable(x, y) /\ ~isAssignable(y, x)
  /\ isUnion(x) /\ isUnion(y)

\* C1: isAssignable is reflexive: isAssignable(t, t) is true for every
\* Type t, bare 'function' and bare 'array' included.
C1_Reflexive ==
  (op = "isAssignable" /\ Truthy(a) /\ b = a) => flag

\* C2: union is an upper bound: both arguments are assignable to
\* union(a, b), for all defined a and b.
C2_UpperBound ==
  (op = "union" /\ Truthy(a) /\ Truthy(b)) =>
    isAssignable(ret, a) /\ isAssignable(ret, b)

\* C3: union is idempotent: union(t, t) is t itself.
C3_Idempotent ==
  (op = "union" /\ Truthy(a) /\ b = a) => ret = a

\* C4: when the pairwise merge of two unions leaves exactly one alternative,
\* union returns that alternative itself, with no wrapper around it.
C4_SingleSurvivor ==
  (op = "union" /\ MergeCase(a, b) /\ Len(MergeMembers(a, b, same)) = 1) =>
    ret = MergeMembers(a, b, same)[1].val

\* no alternative of t is assignable to a different alternative of t
ReducedUnion(t) ==
  \A i, j \in 1..Len(getUnionTypes(t)) :
    i # j => ~isAssignable(getUnionTypes(t)[i], getUnionTypes(t)[j])

\* C5: the merge of two unions is reduced: no alternative of the result is
\* assignable to a different alternative of the result (stated here for
\* arguments that are reduced themselves).
C5_Reduced ==
  (op = "union" /\ MergeCase(a, b) /\ ReducedUnion(a) /\ ReducedUnion(b)
     /\ ret.form = "list") =>
    \A i, j \in 1..Len(ret.items) :
      i # j => ~isAssignable(ret.items[i], ret.items[j])

\* C6 as stated: an array target accepts a (non-union) source only if it is
\* an array whose element type is assignable to the target's, and an array
\* target without element type accepts every array source.
C6_UntypedTargetAcceptsArrays ==
  (op = "isAssignable" /\ NonUnion(a) /\ getKind(a) = "array" /\ NonUnion(b)) =>
    /\ flag => (getKind(b) = "array" /\
                (Truthy(ElementsOf(a)) => isAssignable(ElementsOf(a), ElementsOf(b))))
    /\ (~Truthy(ElementsOf(a)) /\ getKind(b) = "array") => flag

\* C6 as amended: an array target accepts a (non-union) source only if it is
\* an array whose element type is assignable to the target's; an array
\* target without element type accepts no array source that has an element
\* type, and an array target whose element type is 'any' accepts every array
\* source, with or without element type.
C6_ArrayTarget ==
  (op = "isAssignable" /\ NonUnion(a) /\ getKind(a) = "array" /\ NonUnion(b)) =>
    /\ flag => (getKind(b) = "array" /\
                (Truthy(ElementsOf(a)) => isAssignable(ElementsOf(a), ElementsOf(b))))
    /\ (~Truthy(ElementsOf(a)) /\ getKind(b) = "array" /\ Truthy(ElementsOf(b))) => ~flag
    /\ (getKind(ElementsOf(a)) = "any" /\ getKind(b) = "array") => flag

C6_Witness ==
  /\ op = "isAssignable"
  /\ NonUnion(a) /\ getKind(a) = "array" /\ ~Truthy(ElementsOf(a))
  /\ NonUnion(b) /\ getKind(b) = "array" /\ Truthy(ElementsOf(b))
  /\ ~flag

\* C7: between two function types, isAssignable(target, source) holds exactly
\* when both have parameter lists of the same length, each source parameter
\* type accepts the target parameter type at its position, and the target's
\* return type accepts the source's; a bare function is assignable neither
\* to nor from a function type with parameters.
C7_FunctionTypes ==
  (op = "isAssignable" /\ getKind(a) = "function" /\ getKind(b) = "function") =>
    /\ flag =
         (/\ Truthy(ParamsOf(a)) /\ Truthy(ParamsOf(b))
          /\ Len(ParamsOf(a).items) = Len(ParamsOf(b).items)
          /\ \A i \in 1..Len(ParamsOf(b).items) :
               isAssignable(ParamsOf(b).items[i].type, ParamsOf(a).items[i].type)
          /\ isAssignable(ReturnsOf(a), ReturnsOf(b)))
    /\ (a.form = "string" \/ b.form = "string") => ~flag

C7_Witness ==
  /\ op = "isAssignable"
  /\ getKind(a) = "function" /\ getKind(b) = "function"
  /\ Truthy(ParamsOf(a)) /\ Truthy(ParamsOf(b))
  /\ Len(ParamsOf(a).items) >= 1 /\ Len(ParamsOf(b).items) = Len(ParamsOf(a).items)
  /\ ParamsOf(a).items[1].type # ParamsOf(b).items[1].type
  /\ flag

\* C8: canonicalization does not change semantics: hasKind, isFalsy and
\* isTruthy give the same answer on toCanonical(t) as on t, and isAssignable
\* the same answer on toCanonical(t), toCanonical(u) as on t, u.
C8_CanonicalSameSemantics ==
  (op = "toCanonical" /\ Truthy(a) /\ Truthy(b)) =>
    /\ \A k \in TypeKind : hasKind(ret, k) = hasKind(a, k)
    /\ isFalsy(ret) = isFalsy(a)
    /\ isTruthy(ret) = isTruthy(a)
    /\ isAssignable(ret, toCanonical(b)) = isAssignable(a, b)

\* C9 as stated: toShorthand keeps the caller-attached properties of every
\* type object, whatever its kind.
C9_ExtraAlwaysKept ==
  (op = "toShorthand" /\ a.form = "object" /\ a.extra # 0) =>
    ret.form = "object" /\ ret.extra = a.extra

\* toShorthand(t) stays a type object: t is a function with returns or
\* params, or an array with elements
KeepsObject(t) ==
  /\ t.form = "object"
  /\ \/ t.kind = "function" /\ (Truthy(t.returns) \/ Truthy(t.params))
     \/ t.kind = "array" /\ Truthy(t.elements)

\* C9 as amended: toShorthand keeps the caller-attached properties of every
\* type object that stays an object (a function with returns or params, an
\* array with elements), rewriting nothing but elements and returns; an
\* object of any other kind, a bare function or array and a union become a
\* string or a list, which carries no property.
C9_ExtraKeptOnObjects ==
  (op = "toShorthand" /\ a.form = "object" /\ a.extra # 0) =>
    IF KeepsObject(a)
      THEN /\ ret.form = "object"
           /\ ret.extra = a.extra
           /\ ret.kind = a.kind /\ ret.params = a.params /\ ret.anyOf = a.anyOf
      ELSE ret.form \in {"string", "list"}

C9_Witness ==
  /\ op = "toShorthand"
  /\ a.form = "object" /\ a.extra # 0 /\ a.kind = "array"
  /\ ret.form = "object" /\ ret # a

\* C10: round trip: toShorthand(toCanonical(t)) ends without error and equals
\* toShorthand(t); toCanonical turns a kind string into {kind} and a list
\* into {kind: 'union', anyOf} of the canonical alternatives.
C10_RoundTrip ==
  (op = "toCanonical") =>
    /\ ~Failed(ret)
    /\ ~Failed(toShorthand(ret))
    /\ toShorthand(ret) = toShorthand(a)
    /\ a.form = "string" => ret = Plain(a.kind)
    /\ a.form = "list" =>
         /\ ret.form = "object" /\ ret.kind = "union"
         /\ Len(ret.anyOf.items) = Len(a.items)
         /\ \A i \in 1..Len(a.items) :
              a.items[i].form = "string" => ret.anyOf.items[i] = Plain(a.items[i].kind)

C10_Witness ==
  /\ op = "toCanonical"
  /\ a.form = "object" /\ a.kind = "function"
  /\ Truthy(a.returns) /\ Truthy(a.params) /\ Len(a.params.items) >= 1
  /\ ret # a
  /\ toShorthand(ret) = toShorthand(a)

-----------------------------------------------------------------------------
(* Properties of formatType *)

\* the precedence of a type's own operator: a union of alternatives 1, a
\* function with return type 2; any other type has no operator
OwnPrecedence(t) ==
  IF isUnion(t) /\ Len(getUnionTypes(t)) > 0 THEN 1
  ELSE IF getKind(t) = "function" /\ Truthy(ReturnsOf(t)) THEN 2
  ELSE NoPrecedence

\* t as it must appear nested in a context of precedence c
Nested(t, c) ==
  IF OwnPrecedence(t) # NoPrecedence /\ OwnPrecedence(t) < c
    THEN "(" \o formatType(t, 0) \o ")" ELSE formatType(t, 0)

HandlesPrecedenceExample ==
  Obj("array",
      Obj("function", Undef, List(<<Str("number"), Str("string")>>),
          List(<<Param("", List(<<Str("string"), Str("null")>>))>>), Undef, 0),
      Undef, Undef, Undef, 0)

\* C11: formatType parenthesizes a nested type exactly when the type's own
\* operator (union 1, function with return type 2) has strictly lower
\* precedence than its context: a union alternative is formatted in context
\* 1, a return type in context 2, an element type in context 3, a parameter
\* type and the top level in context 0; the array of the test renders as
\* "(function(:string | null): (number | string))[]".
C11_Parenthesizes ==
  (op = "formatType") =>
    /\ text = Nested(a, ctx)
    /\ (isUnion(a) /\ Len(getUnionTypes(a)) > 0) =>
         formatType(a, 0) =
           Join([i \in 1..Len(getUnionTypes(a)) |-> Nested(getUnionTypes(a)[i], 1)], " | ")
    /\ (~isUnion(a) /\ getKind(a) = "function" /\ Truthy(ReturnsOf(a))) =>
         LET head == IF Truthy(a.params)
                       THEN "function("
                              \o Join([i \in 1..Len(a.params.items) |->
                                         formatParam(a.params.items[i])], ", ")
                              \o ")"
                       ELSE "function"
         IN
           formatType(a, 0) = head \o ": " \o Nested(a.returns, 2)
    /\ (~isUnion(a) /\ getKind(a) = "function" /\ Truthy(ParamsOf(a))) =>
         \A i \in 1..Len(a.params.items) :
           LET p == a.params.items[i] IN
           Truthy(p.type) =>
             formatParam(p) = (IF p.name # "" THEN p.name \o ": " ELSE ":") \o Nested(p.type, 0)
    /\ (~isUnion(a) /\ getKind(a) = "array" /\ Truthy(ElementsOf(a))) =>
         formatType(a, 0) = Nested(a.elements, 3) \o "[]"
    /\ (a = HandlesPrecedenceExample /\ ctx = 0) =>
         text = "(function(:string | null): (number | string))[]"

C11_Witness ==
  /\ op = "formatType" /\ ctx = 0
  /\ a = HandlesPrecedenceExample
  /\ text = "(function(:string | null): (number | string))[]"

-----------------------------------------------------------------------------
(* Properties of Scope *)

HasOwn(ss, scope, name) == name \in DOMAIN ss[scope].members.props

\* the data stored under name in the nearest scope of the chain that has
\* name as an own member, undefined when no scope of the chain has
RECURSIVE NearestOwn(_, _, _)
NearestOwn(ss, scope, name) ==
  IF scope = 0 THEN Undef
  ELSE IF HasOwn(ss, scope, name) THEN ss[scope].members.props[name]
  ELSE NearestOwn(ss, ss[scope].parent, name)

\* C12: addOwnMember(name, data) fails if and only if name is already in the
\* own member map of this scope (a name held by an ancestor only does not
\* make it fail), and a failed call leaves every member map as it was.
C12_FailsIffOwnMember ==
  [][(scall'.method = "addOwnMember") =>
       /\ Failed(sret') <=> HasOwn(scopes, scall'.this, scall'.name)
       /\ Failed(sret') => scopes' = scopes
       /\ ~Failed(sret') =>
            /\ HasOwn(scopes', scall'.this, scall'.name)
            /\ scopes'[scall'.this].members.props[scall'.name] = sret'
    ]_vars

\* C13: findMember(name) returns the data stored under name in the nearest
\* scope of the chain this, parent, ..., root that has name as an own member,
\* whatever that data is.
C13_NearestOwnMember ==
  (scall.method = "findMember") => sret = NearestOwn(scopes, scall.this, scall.name)

\* the segments of a qualified name
PartsOf(qname) ==
  IF qname.form = "list" THEN qname.items ELSE SplitFrom(qname.chars, "")

\* the later segments of a qualified name, each looked up in the members map
\* of the previous result; undefined as soon as a segment or a map is missing
RECURSIVE ResolveRest(_, _)
ResolveRest(member, parts) ==
  IF Len(parts) = 0 THEN member
  ELSE IF member.form = "data" /\ member.members.form = "map"
    THEN ResolveRest(GetProperty(member.members, Head(parts)), Tail(parts))
  ELSE Undef

\* C14: resolve(qname) never throws: the first segment is resolved with
\* findMember, each later segment in the members map of the previous result,
\* and the result is undefined as soon as a segment or a members map is
\* missing.
C14_ResolveNeverThrows ==
  (scall.method = "resolve") =>
    /\ ~Failed(sret)
    /\ LET parts == PartsOf(scall.qname) IN
       sret = IF Len(parts) = 0 THEN Undef
              ELSE ResolveRest(findMember(scopes, scall.this, Head(parts)), Tail(parts))

-----------------------------------------------------------------------------
(* Properties of walk *)

\* the children of a node, the nodes of a tree, the uids of a tree
ChildNodes(node) ==
  LET steps == walkerSteps(node.type, node) IN {steps[i].node : i \in DOMAIN steps}

RECURSIVE NodesOf(_)
NodesOf(node) == {node} \cup UNION {NodesOf(c) : c \in ChildNodes(node)}

Subtree(node) == {n.uid : n \in NodesOf(node)}

\* the uids from node down to uid
RECURSIVE PathTo(_, _)
PathTo(node, uid) ==
  IF node.uid = uid THEN <<uid>>
  ELSE <<node.uid>> \o PathTo(CHOOSE c \in ChildNodes(node) : uid \in Subtree(c), uid)

\* per tree and uid: the node, the uids below it, the path from the root
NodeTable ==
  [t \in WalkTrees |-> [u \in Subtree(t) |-> CHOOSE n \in NodesOf(t) : n.uid = u]]

BelowTable ==
  [t \in WalkTrees |-> [u \in Subtree(t) |-> Subtree(NodeTable[t][u]) \ {u}]]

PathTable == [t \in WalkTrees |-> [u \in Subtree(t) |-> PathTo(t, u)]]

NodeOf(uid) == NodeTable[wast][uid]

ProperDescendants(uid) == BelowTable[wast][uid]

\* the parent of a node; 0 for the root
ParentOf(uid) ==
  LET path == PathTable[wast][uid] IN
  IF Len(path) = 1 THEN 0 ELSE path[Len(path) - 1]

\* how specific a dispatch key is for a node of the given type: the groups
\* Statement and Expression and the overrides first, then Declaration, then
\* Function and Class, the node's own type last
Specificity(vtype, type) ==
  IF vtype = type THEN 4
  ELSE IF vtype \in {"Function", "Class"} THEN 3
  ELSE IF vtype = "Declaration" THEN 2
  ELSE 1

\* C15: the entry (Before) hooks of a node are invoked from the least to the
\* most specific dispatch key, before the descent; its exit hooks after the
\* descent, most specific first; every hook invoked for a node below it
\* falls between its entry hooks and its exit hooks; and the hooks under the
\* node's own type are invoked for every node visited, once each.
C15_HookOrder ==
  (wend # "none") =>
    /\ \A i, j \in DOMAIN wtrace :
         (i < j /\ wtrace[i].node = wtrace[j].node) =>
           LET type == NodeOf(wtrace[i].node).type
               si == Specificity(wtrace[i].vtype, type)
               sj == Specificity(wtrace[j].vtype, type)
           IN /\ ~(wtrace[i].phase = "After" /\ wtrace[j].phase = "Before")
              /\ (wtrace[i].phase = "Before" /\ wtrace[j].phase = "Before") => si < sj
              /\ (wtrace[i].phase = "After" /\ wtrace[j].phase = "After") => si > sj
    /\ \A i, j \in DOMAIN wtrace :
         (wtrace[j].node \in ProperDescendants(wtrace[i].node)) =>
           (wtrace[i].phase = "Before" <=> i < j)
    /\ (wend = "returned" /\ \A h \in wvisitors : h.does \in {"undefined", "state"}) =>
         \A n \in NodesOf(wast), h \in wvisitors :
           (h.vtype = n.type) =>
             Cardinality({i \in DOMAIN wtrace :
                            /\ wtrace[i].node = n.uid
                            /\ wtrace[i].vtype = h.vtype
                            /\ wtrace[i].phase = h.phase}) = 1

\* two exit hooks ran for one node, the one under the node's own type first
C15_Witness ==
  /\ wend = "returned"
  /\ \E i, j \in DOMAIN wtrace :
       /\ i < j /\ wtrace[i].node = wtrace[j].node
       /\ wtrace[i].phase = "After" /\ wtrace[j].phase = "After"
       /\ wtrace[i].vtype = NodeOf(wtrace[i].node).type

\* the object a hook invocation returned, when it returned one
Returned(e) == StateObject(e.vtype \o e.phase)

\* the invocations for node n before the i-th that returned a state object
Replacements(n, i, phases) ==
  {k \in DOMAIN wtrace :
     /\ k < i /\ wtrace[k].node = n /\ wtrace[k].does = "state"
     /\ wtrace[k].phase \in phases}

\* the state handed to visit for node n: the caller's for the root; for any
\* other node the state its parent descends with, which is the last object
\* an entry hook of the parent returned, else the state the parent was given
\* (a hook that visits the children itself hands on the state it received)
RECURSIVE GivenState(_)
GivenState(n) ==
  IF n = wast.uid THEN wstate
  ELSE LET p == ParentOf(n)
           drivers == {k \in DOMAIN wtrace : wtrace[k].node = p /\ wtrace[k].does = "visit"}
           entries == Replacements(p, Len(wtrace) + 1, {"Before"})
       IN IF drivers # {} THEN wtrace[CHOOSE k \in drivers : TRUE].state
          ELSE IF entries # {}
            THEN Returned(wtrace[CHOOSE k \in entries : \A m \in entries : m <= k])
          ELSE GivenState(p)

\* the ancestors array the caller handed to walk
AncestorsGiven == IF wstate = Undef THEN Undef ELSE List(<<>>)

\* the walk with every skipping hook turned into one that returns nothing
WithoutSkips ==
  {IF h.does = "false" THEN Hook(h.vtype, h.phase, "undefined") ELSE h : h \in wvisitors}

\* an invocation without what the hook did
CallOf(e) == <<e.vtype, e.phase, e.node, e.state, e.ancestors>>

C17_Ancestors ==
  (wend # "none" /\ wstate # Undef) =>
    /\ \A i \in DOMAIN wtrace :
         wtrace[i].ancestors = List(PathTable[wast][wtrace[i].node])
    /\ (wend = "returned") => wancestors = List(<<>>)

\* a hook visited the children itself, another hook skipped a node, and a
\* node three levels down was reached
C17_Witness ==
  /\ wend = "returned" /\ wstate # Undef
  /\ wancestors = List(<<>>)
  /\ \E i, j, k \in DOMAIN wtrace :
       /\ wtrace[i].does = "visit" /\ wtrace[j].does = "false"
       /\ wtrace[k].node \in ProperDescendants(wtrace[i].node)
       /\ Len(wtrace[k].ancestors.items) >= 4

\* the nodes in binding-target position
BindingTargets ==
  CASE wast = DeclarationTree -> {4, 9, 12}
    [] wast = FunctionTree -> {3, 4, 5, 6, 13}
    [] wast = ObjectPatternTree -> {4, 6, 7, 9, 10}
    [] wast = DestructuringTree -> {4, 6, 7, 11, 12, 15}
    [] OTHER -> {}

\* C18: every node in a binding-target position is dispatched with the
\* Pattern group: the Pattern hooks are invoked for it and the Expression
\* hooks are not; this covers declarator ids, function and class ids,
\* parameters, catch parameters, assignment left sides, array-pattern
\* elements, rest arguments, non-computed property and member keys, and the
\* value targets of the properties of an ObjectPattern.
C18_PatternDispatch ==
  (wend = "returned" /\ \A h \in wvisitors : h.does \in {"undefined", "state"}) =>
    /\ \A h \in wvisitors, n \in BindingTargets :
         (h.vtype = Pattern) =>
           \E i \in DOMAIN wtrace :
             wtrace[i].node = n /\ wtrace[i].vtype = Pattern /\ wtrace[i].phase = h.phase
    /\ \A i \in DOMAIN wtrace :
         (wtrace[i].vtype = "Expression") => wtrace[i].node \notin BindingTargets

-----------------------------------------------------------------------------
(* Properties of analyze *)

LogicalVisits == {i \in DOMAIN atrace : atrace[i].kind = "logical"}

\* the operand's constant value is truthy, or it has no constant value and
\* its type is always truthy
KnownTruthy(x) ==
  \/ HasValue(x) /\ TruthyData(x.value)
  \/ ~HasValue(x) /\ isTruthy(TypeOf(x))

\* the operand's constant value is falsy, or its type is always falsy
KnownFalsy(x) ==
  \/ HasValue(x) /\ ~TruthyData(x.value)
  \/ isFalsy(TypeOf(x))

ShortCircuits(e) ==
  \/ e.operator = "||" /\ KnownTruthy(e.left)
  \/ e.operator = "&&" /\ KnownFalsy(e.left)

\* the JavaScript result of the operator on two values
JsLogical(operator, l, r) ==
  IF operator = "||" THEN (IF TruthyData(l) THEN l ELSE r)
  ELSE (IF TruthyData(l) THEN r ELSE l)

\* C19: for a || b with a known truthy and for a && b with a known falsy
\* the analysis of the logical expression is the analysis of a; in every
\* other case it has the type union(type(a), type(b)) when both types are
\* known, and it carries a value only when both operands carry one, the
\* value being the JavaScript result of the operator on the two values.
C19_LogicalExpression ==
  \A i \in LogicalVisits :
    LET e == atrace[i] IN
    IF ShortCircuits(e) THEN e.ret = e.left
    ELSE /\ (Truthy(TypeOf(e.left)) /\ Truthy(TypeOf(e.right))) =>
              TypeOf(e.ret) = union(TypeOf(e.left), TypeOf(e.right),
                                    TypeOf(e.left) = TypeOf(e.right))
         /\ HasValue(e.ret) =>
              /\ HasValue(e.left) /\ HasValue(e.right)
              /\ e.ret.value = JsLogical(e.operator, e.left.value, e.right.value)

\* one logical expression short-circuited on the type of an operand without
\* a value, another got the union of two types and a computed value
C19_Witness ==
  /\ aret # Pending
  /\ \E i \in LogicalVisits :
       ShortCircuits(atrace[i]) /\ ~HasValue(atrace[i].left)
  /\ \E j \in LogicalVisits :
       /\ ~ShortCircuits(atrace[j])
       /\ HasValue(atrace[j].ret)
       /\ IsArray(TypeOf(atrace[j].ret))

IdentifierVisits == {i \in DOMAIN atrace : atrace[i].kind = "identifier"}

\* the scope was created for a function
FunctionScope(k) ==
  \E i \in DOMAIN atrace :
    /\ atrace[i].kind = "scope" /\ atrace[i].scope = k
    /\ atrace[i].by \in {"FunctionDeclaration", "FunctionExpression"}

RECURSIVE RootOf(_)
RootOf(k) == IF ascopes[k].parent = 0 THEN k ELSE RootOf(ascopes[k].parent)

\* the nearest enclosing function or root scope
RECURSIVE NearestFunctionOrRoot(_)
NearestFunctionOrRoot(k) ==
  IF FunctionScope(k) \/ ascopes[k].parent = 0 THEN k
  ELSE NearestFunctionOrRoot(ascopes[k].parent)

\* the visit left the name as an own member of scope `target`, returned the
\* member, and changed nothing else
PlacedIn(e, target) ==
  /\ Len(e.after) = Len(e.before)
  /\ HasOwn(e.after, target, e.name)
  /\ e.ret = e.after[target].members.props[e.name]
  /\ \A k \in DOMAIN e.before :
       /\ e.after[k].parent = e.before[k].parent
       /\ e.after[k].topLevel = e.before[k].topLevel
       /\ \A n \in DOMAIN e.after[k].members.props :
            (k # target \/ n # e.name) =>
              /\ HasOwn(e.before, k, n)
              /\ e.after[k].members.props[n] = e.before[k].members.props[n]

\* C20: a reference to a name that findMember finds returns the record found
\* and adds nothing; a reference to a name it does not find adds the name to
\* the root scope; a `var` declaration adds the name to the nearest enclosing
\* function or root scope; let, const, parameters and catch parameters are
\* added to the scope current at the declaration; no other scope changes.
C20_BindingPlacement ==
  \A i \in IdentifierVisits :
    LET e == atrace[i]
        found == findMember(e.before, e.scope, e.name)
    IN CASE e.declContext = "" ->
              IF TruthyData(found) THEN e.ret = found /\ e.after = e.before
              ELSE PlacedIn(e, RootOf(e.scope))
         [] e.declContext = "var" -> PlacedIn(e, NearestFunctionOrRoot(e.scope))
         [] OTHER -> PlacedIn(e, e.scope)

BinaryVisits == {i \in DOMAIN atrace : atrace[i].kind = "binary"}

\* the operator throws a TypeError on the two values: `in` when the right
\* one is no object, `instanceof` when the right one is not callable (no
\* constant value is)
ThrowsAtRuntime(e) ==
  /\ HasValue(e.left) /\ HasValue(e.right)
  /\ \/ e.operator = "instanceof"
     \/ e.operator = "in" /\ e.right.value.form # "array"

\* C21: when `in` or `instanceof` is analyzed with constant operands for
\* which the operator throws at runtime, analyze does not raise: the result
\* of the expression has type 'boolean', a `thrown` analysis and no value,
\* and the statements after it are analyzed.
C21_ModeledThrow ==
  /\ \A i \in BinaryVisits :
       ThrowsAtRuntime(atrace[i]) =>
         /\ atrace[i].ret.type = Str("boolean")
         /\ atrace[i].ret.thrown # Absent
         /\ ~HasValue(atrace[i].ret)
  /\ (aast \in BinaryTrees \cup {ThrownTree} /\ aret # Pending) =>
       /\ ~Failed(aret)
       /\ \E i \in BinaryVisits : atrace[i].uid \in {1, 2}
  /\ (aast = ThrownTree /\ aret # Pending) =>
       /\ \E i \in BinaryVisits : atrace[i].uid = 6
       /\ HasOwn(ascopes, 1, "z")

\* `1 in 0; 1 instanceof null; z` was analyzed to its end, both expressions
\* with a thrown analysis
C21_Witness ==
  /\ aast = ThrownTree /\ aret = Undef
  /\ Cardinality({i \in BinaryVisits :
                    ThrowsAtRuntime(atrace[i]) /\ atrace[i].ret.thrown # Absent}) = 2
  /\ HasOwn(ascopes, 1, "z")

Visits == {i \in DOMAIN atrace : atrace[i].kind = "visit"}

\* C26: whenever a visit produces a result carrying both type and value,
\* the kind of the value is covered by the type:
\* hasKind(type, kindOf(value)) is true.
C26_TypeCoversValue ==
  \A i \in Visits :
    LET r == atrace[i].ret IN
    (r.form = "info" /\ Truthy(r.type) /\ HasValue(r)) =>
      hasKind(r.type, kindOf(r.value).kind)

\* every record of the member map, and of the members maps nested in it,
\* has the name it is stored under
RECURSIVE NamedByKey(_)
NamedByKey(map) ==
  \A k \in DOMAIN map.props :
    LET m == map.props[k] IN
    (m.form = "info") =>
      /\ m.name = k
      /\ (m.members # Absent) => NamedByKey(m.members)

\* C27: after analyze every record stored in a scope's member map or in a
\* nested members map under key k has name k.
C27_RecordNames ==
  (aret # Pending) => \A i \in DOMAIN ascopes : NamedByKey(ascopes[i].members)

WriteVisits == {j \in DOMAIN atrace : atrace[j].kind = "write" /\ atrace[j].name # ""}

\* C28: once a write to a variable has been analyzed, a reference to the
\* variable no longer yields the constant value that references before the
\* write yielded, unless the result of the write is that constant.
C28_WriteDropsConstant ==
  \A j \in WriteVisits : \A i \in IdentifierVisits : \A k \in IdentifierVisits :
    LET before == atrace[i].ret
        later == atrace[k].ret
        written == atrace[j].ret
    IN (/\ i < j /\ j < k
        /\ atrace[i].name = atrace[j].name /\ atrace[k].name = atrace[j].name
        /\ before.form = "info" /\ later.form = "info" /\ before.oid = later.oid
        /\ HasValue(before) /\ HasValue(later) /\ later.value = before.value)
       => (written.form = "info" /\ HasValue(written) /\ written.value = before.value)

\* C30: analyze fails only for an unsupported construct (`with`, a node
\* type without visitor) or a duplicate declaration.
C30_OnlyFatalErrors ==
  Failed(aret) =>
    aret.error \in {"Error: Unhandled AST node type",
                    "Error: 'with' statement not supported",
                    "Error: already defined"}

\* the columns the tokens take
RECURSIVE TokensWidth(_)
TokensWidth(tokens) ==
  IF tokens = <<>> THEN 0 ELSE Len(Head(tokens)) + TokensWidth(Tail(tokens))

\* the width of a written line: indent columns plus token lengths
LineWidth(fmt, l) ==
  l.indent * (IF fmt.indentChar = "\t" THEN TabWidth ELSE Len(fmt.indentChar))
    + TokensWidth(l.tokens)

\* the line holds nothing after its first normal token but the trailing
\* tokens that directly follow it
FirstTokenOnly(kinds) ==
  \E n \in 0..Len(kinds) :
    /\ \A i \in 1..n : kinds[i] # TokenKind.Normal
    /\ \/ n = Len(kinds)
       \/ /\ kinds[n + 1] = TokenKind.Normal
          /\ \A i \in (n + 2)..Len(kinds) : kinds[i] = TokenKind.Trailing

\* C22: every line written has a width of at most the margin, except a line
\* that holds only the indent, the first normal token of the line with the
\* tokens before it, and the trailing tokens directly following it.
C22_MarginInvariant ==
  (formatter.form = "formatter") =>
    \A i \in DOMAIN formatter.written :
      \/ LineWidth(formatter, formatter.written[i]) <= formatter.margin
      \/ FirstTokenOnly(formatter.written[i].kinds)

\* tokens with their kinds, as femitted holds them
Pairs(tokens, kinds) ==
  [i \in 1..Len(tokens) |-> [token |-> tokens[i], kind |-> kinds[i]]]

RECURSIVE SkipSpaces(_)
SkipSpaces(pairs) ==
  IF pairs # <<>> /\ Head(pairs).kind = TokenKind.Space THEN SkipSpaces(Tail(pairs))
  ELSE pairs

\* the lines are the emitted tokens in their order, cut into lines, with
\* nothing but the spaces before each line left out; `rest` is what was
\* emitted after the last line
RECURSIVE LinesMatch(_, _)
LinesMatch(lines, emitted) ==
  IF lines = <<>> THEN [ok |-> TRUE, rest |-> emitted]
  ELSE LET l == Pairs(Head(lines).tokens, Head(lines).kinds)
           from == SkipSpaces(emitted)
       IN IF l = <<>> THEN LinesMatch(Tail(lines), from)
          ELSE IF /\ l[1].kind # TokenKind.Space /\ l[Len(l)].kind # TokenKind.Space
                  /\ Len(l) <= Len(from) /\ SubSeq(from, 1, Len(l)) = l
            THEN LinesMatch(Tail(lines), SubSeq(from, Len(l) + 1, Len(from)))
          ELSE [ok |-> FALSE, rest |-> <<>>]

\* C29: the token buffer neither loses, duplicates nor reorders tokens: the
\* lines written, without indentation and newlines, are the emitted tokens
\* in emission order with only space tokens at line starts and line ends
\* dropped, and after emitNewline or flush the buffer holds no leading,
\* normal or trailing token.
C29_NoTokenLost ==
  (formatter.form = "formatter") =>
    LET m == LinesMatch(formatter.written, femitted) IN
    /\ m.ok
    /\ SkipSpaces(m.rest) = SkipSpaces(Pairs(formatter.tokens, formatter.kinds))
    /\ \A i \in DOMAIN formatter.written :
         LET l == formatter.written[i] IN
         l.line = Repeat(formatter.indentChar, l.indent) \o ConcatTokens(l.tokens) \o "\n"
    /\ (fcall \in {"emitNewline", "flush"} /\ formatter.thrown = "") =>
         \A i \in DOMAIN formatter.kinds : formatter.kinds[i] = TokenKind.Space

\* a, a space and bbbb were emitted and emitNewline wrote them as two
\* lines, the space between them dropped
C29_Witness ==
  /\ fcall = "emitNewline" /\ formatter.thrown = ""
  /\ Len(femitted) = 3 /\ femitted[2].kind = TokenKind.Space
  /\ Len(formatter.written) = 2
  /\ formatter.written[1].tokens = <<femitted[1].token>>
  /\ formatter.written[2].tokens = <<femitted[3].token>>
  /\ formatter.tokens = <<>>

-----------------------------------------------------------------------------
(* Properties of format *)

\* the tokens format pushes for an expression that is visited with the
\* state {}, no precedence being set
FreshTokens(node) ==
  formatVisit([guards |-> <<>>] @@ Formatter(WriteOnly), node, EmptyState).tokens

\* C23: the test expression of an if, while, do-while, switch or with guard
\* is rendered with a fresh precedence: between the parentheses of the guard
\* stand the tokens that the expression gives when no precedence is set,
\* whatever the context of the statement
C23_GuardFreshPrecedence ==
  \A i \in DOMAIN rguards : rguards[i].tokens = FreshTokens(rguards[i].test)

OperandTypes ==
  {"BinaryExpression", "LogicalExpression", "AssignmentExpression",
   "ConditionalExpression", "SequenceExpression"}

\* the statement formatted is one expression statement
OneExpression ==
  /\ rstep = "formatted" /\ Len(rout) = 1
  /\ Len(rast.body) = 1 /\ rast.body[1].type = "ExpressionStatement"

\* ... whose expression is a binary, logical or assignment expression with
\* an operand of the types above
OperatorOverOperands ==
  /\ OneExpression
  /\ rast.body[1].expression.type \in
       {"BinaryExpression", "LogicalExpression", "AssignmentExpression"}
  /\ \/ rast.body[1].expression.left.type \in OperandTypes
     \/ rast.body[1].expression.right.type \in OperandTypes

\* the text of an identifier, a number or the pattern {}
LeafText(node) ==
  CASE node.type = "Identifier" -> node.name
    [] node.type = "Literal" -> node.raw
    [] node.type = "ObjectPattern" -> "{}"

\* the text, without parentheses around it, of an expression whose operands
\* are identifiers, numbers or the pattern {}
PlainText(node) ==
  CASE node.type = "ConditionalExpression" ->
         LeafText(node.test) \o " ? " \o LeafText(node.consequent) \o " : "
           \o LeafText(node.alternate)
    [] node.type = "SequenceExpression" ->
         LeafText(node.expressions[1]) \o ", " \o LeafText(node.expressions[2])
    [] node.type \in {"BinaryExpression", "LogicalExpression",
                      "AssignmentExpression"} ->
         LeafText(node.left) \o " " \o node.operator \o " " \o LeafText(node.right)
    [] OTHER -> LeafText(node)

InParentheses(str, wrapped) == IF wrapped THEN "(" \o str \o ")" ELSE str

\* the statement `left operator right;` with the operands in parentheses or
\* not
StatementText(node, wrapLeft, wrapRight) ==
  InParentheses(PlainText(node.left), wrapLeft) \o " " \o node.operator \o " "
    \o InParentheses(PlainText(node.right), wrapRight) \o ";"

\* read without parentheses around the left (the right) operand, the other
\* operand keeping those it needs to be an operand, the text gives another
\* tree or none
ReparseChanges(node, side) ==
  parse(StatementText(node,
                      side # "left" /\ node.left.type \in OperandTypes,
                      side # "right" /\ node.right.type \in OperandTypes))
    # Program(0, <<ExpressionStatement(0, node)>>)

\* an assignment to an object pattern
IsPatternAssignment(node) ==
  node.type = "AssignmentExpression" /\ node.left.type = "ObjectPattern"

C25_Idempotent ==
  /\ (rstep = "parsed" /\ Len(rout) >= 1) => rast.type = "Program"
  /\ \A i \in 2..Len(rout) : rout[i] = rout[1]

====
